---- MODULE Spec2Model ----
(***************************************************************************)
(* GenieFlow session engine: one session, its persisted model, its session *)
(* lock, its progress record, the clients calling the SessionManager and   *)
(* the Celery workers running the DAGs the state machine enqueues.         *)
(***************************************************************************)
EXTENDS Integers, Sequences, FiniteSets, TLC

\* ---------------------------------------------------------------- bounds
MaxEvents == 2     \* non-poll events the clients send in one behaviour

\* an event enqueues at most one DAG and its trigger at most one follow-up
MaxPending == 1   \* on_success callbacks that may lag behind their chain
MaxRedelivered == 1   \* final tasks the broker hands out a second time
\* a second run of a final task enqueues at most one DAG more
MaxDags == 2 * MaxEvents + MaxRedelivered

Clients == {"c1", "c2"}     \* concurrent callers of the SessionManager
DagIds  == 1..MaxDags
SessionId == "s1"

\* ------------------------------------------------------- flow definition
\* A flow in the style of example_qa/q_and_a_capture.py, with a template
\* environment in which the ai_* states have an invoker.
States == {"intro", "ai_extracts_name", "need_to_retry",
           "ai_creates_response", "welcome_message"}

InitialState == "intro"

StateName(s) ==
    CASE s = "intro"               -> "Intro"
      [] s = "ai_extracts_name"    -> "Ai extracts name"
      [] s = "need_to_retry"       -> "Need to retry"
      [] s = "ai_creates_response" -> "Ai creates response"
      [] s = "welcome_message"     -> "Welcome message"

\* transitions in declaration order; cond/unless name a guard
Transitions == <<
    [event |-> "user_input",    source |-> "intro",               target |-> "ai_extracts_name",    guard |-> "always"],
    [event |-> "user_input",    source |-> "need_to_retry",       target |-> "ai_extracts_name",    guard |-> "always"],
    [event |-> "user_input",    source |-> "welcome_message",     target |-> "ai_creates_response", guard |-> "always"],
    [event |-> "ai_extraction", source |-> "ai_extracts_name",    target |-> "ai_creates_response", guard |-> "cond"],
    [event |-> "ai_extraction", source |-> "ai_extracts_name",    target |-> "need_to_retry",       guard |-> "unless"],
    [event |-> "ai_extraction", source |-> "ai_creates_response", target |-> "welcome_message",     guard |-> "always"],
    [event |-> "advance",       source |-> "intro",               target |-> "welcome_message",     guard |-> "always"]
>>

\* templates: a leaf, or a sequence of n leaves
Templates ==
    [s \in States |->
        CASE s = "ai_extracts_name"    -> [type |-> "leaf", n |-> 1]
          [] s = "ai_creates_response" -> [type |-> "seq",  n |-> 2]
          [] OTHER                     -> [type |-> "leaf", n |-> 1]]

get_template_for_state(s) == Templates[s]

\* GenieEnvironment.has_invoker: the template resolves to a prefix with an invoker
has_invoker(s) == s \in {"ai_extracts_name", "ai_creates_response"}

\* GenieStateMachine.is_valid_response
is_valid_response(arg) == arg # ""

GuardHolds(t, arg) ==
    CASE t.guard = "always" -> TRUE
      [] t.guard = "cond"   -> is_valid_response(arg)
      [] t.guard = "unless" -> ~is_valid_response(arg)

\* ------------------------------------------------------ state machine
Candidates(s, ev, arg) ==
    SelectSeq(Transitions,
              LAMBDA t : t.source = s /\ t.event = ev /\ GuardHolds(t, arg))

\* statemachine raises TransitionNotAllowed when no transition of the event
\* leaves the current state with its guard satisfied
TransitionNotAllowed(s, ev, arg) == Candidates(s, ev, arg) = <<>>

ChosenTransition(s, ev, arg) == Head(Candidates(s, ev, arg))

RECURSIVE Dedupe(_, _)
Dedupe(seq, seen) ==
    IF seq = <<>> THEN <<>>
    ELSE IF Head(seq) \in seen THEN Dedupe(Tail(seq), seen)
    ELSE <<Head(seq)>> \o Dedupe(Tail(seq), seen \cup {Head(seq)})

EventsOf(seq) == [i \in 1..Len(seq) |-> seq[i].event]

\* State.transitions.unique_events
unique_events(s) ==
    Dedupe(EventsOf(SelectSeq(Transitions, LAMBDA t : t.source = s)), {})

\* ------------------------------------------------- transition listener
determine_type(s) == IF has_invoker(s) THEN "INVOKER" ELSE "USER"

determine_transition_type(t) ==
    [source |-> determine_type(t.source), target |-> determine_type(t.target)]

\* faulty variant: every transition persists the raw argument
persistence_always_raw(tt) == "RAW"

DIALOGUE_PERSISTENCE_MAP(tt) ==
    CASE tt.source = "USER"    /\ tt.target = "USER"    -> "RAW"
      [] tt.source = "USER"    /\ tt.target = "INVOKER" -> "RAW"
      [] tt.source = "INVOKER" /\ tt.target = "USER"    -> "RENDERED"
      [] tt.source = "INVOKER" /\ tt.target = "INVOKER" -> "NONE"

\* GenieEnvironment.render_template: the rendering of a state's template
render_template(s) ==
    CASE s = "intro"               -> "rendered intro"
      [] s = "ai_extracts_name"    -> "rendered ai_extracts_name"
      [] s = "need_to_retry"       -> "rendered need_to_retry"
      [] s = "ai_creates_response" -> "rendered ai_creates_response"
      [] s = "welcome_message"     -> "rendered welcome_message"

\* the actor of the element a transition records (dialogue table)
element_actor(persistence) == IF persistence = "RENDERED" THEN "assistant" ELSE "user"

\* GenieModel.record_dialogue_element
record_dialogue_element(m, actor) ==
    [m EXCEPT !.dialogue = Append(@, [actor |-> actor, actor_text |-> m.actor_input])]

before_transition(m, t, arg) == [m EXCEPT !.actor_input = arg]

\* faulty variant: a transition that keeps only the element it records
after_transition_replacing(m, t) ==
    [m EXCEPT !.dialogue = <<[actor |-> "user", actor_text |-> m.actor_input]>>]

after_transition(m, t) ==
    LET persistence == DIALOGUE_PERSISTENCE_MAP(determine_transition_type(t)) IN
    IF persistence = "NONE" THEN m
    ELSE IF persistence = "RENDERED"
         THEN record_dialogue_element(
                  [m EXCEPT !.actor_input = render_template(m.state)],
                  element_actor(persistence))
         ELSE record_dialogue_element(m, element_actor(persistence))

\* StateMachine.send for an allowed event: before_transition, the state
\* change, after_transition (on_transition enqueues: see enqueue_task)
SendModel(m, ev, arg) ==
    LET t == ChosenTransition(m.state, ev, arg) IN
    after_transition([before_transition(m, t, arg) EXCEPT !.state = t.target], t)

\* on_transition enqueues exactly when the target is an INVOKER state
Enqueues(m, ev, arg) ==
    determine_transition_type(ChosenTransition(m.state, ev, arg)).target = "INVOKER"

\* ------------------------------------------------------- task compiler
\* TaskCompiler.nr_tasks: the compiled subtasks, the final trigger included
NrTasks(tpl) ==
    (CASE tpl.type = "leaf" -> 1
       [] tpl.type = "seq"  -> tpl.n + (tpl.n - 1)) + 1

\* ------------------------------------------------------------- inputs
ClientEvents == {"user_input", "ai_extraction", "advance"}
Args         == {"a", ""}       \* event_input of a client event
\* only the guards of ai_extraction read the argument
ArgsFor(ev)  == IF ev = "ai_extraction" THEN Args ELSE IF ev = "poll" THEN {""} ELSE {"a"}
Results      == {"r"}           \* result a DAG hands to trigger_ai_event

\* ---------------------------------------------------------------- state
VARIABLES
    store,      \* the persisted GenieModel of the session (object store)
    progress,   \* the progress record of the session
    lock,       \* the session lock key in the lock store
    cpc,        \* per client: position in its SessionManager call
    cop,        \* per client: the call and its EventInput
    cmodel,     \* per client: the model loaded under the lock
    cresp,      \* per client: the response being returned
    dag,        \* per enqueued DAG: position of its chain of tasks
    wmodel,     \* per DAG: the model loaded by trigger_ai_event / error_handler
    cbSucc,     \* on_success callbacks not yet run
    cbFail,     \* on_failure callbacks not yet run
    cbpc,       \* position of the callback being run
    nEvents,    \* non-poll events sent so far
    nDags,      \* DAGs enqueued so far
    tpl,        \* the template expression a task compiler was given
    run,        \* the tasks compiled from tpl, their inputs and results
    pcall,      \* per caller, its call of a progress operation of the
                \* SessionLockManager: position, arguments, locals, outcome
    ser,        \* a model on its way through serialization and back
    sec,        \* a SecondaryStore: its entries, their persistence states,
                \* the payloads last serialized from it, its last call
    pool,       \* an InvokersPool: its queue, its current invoker, and per
                \* invocation the position in the with statement
    http,       \* per client, the reply of the HTTP route to its last call
    redelivered, \* the DAGs whose final task the broker has handed out again
    trans       \* a transition on its way through the hooks of the listener

vars == <<store, progress, lock, cpc, cop, cmodel, cresp, dag, wmodel,
          cbSucc, cbFail, cbpc, nEvents, nDags, tpl, run, pcall, ser, sec, pool, http, redelivered, trans>>

\* the variables of a compiled template and of the progress operations, left
\* alone by the session engine
libvars == <<ser, sec, pool, http, redelivered, trans>>
dagvars == <<tpl, run, pcall, libvars>>
NoTemplate == [k |-> "none"]
NoOutcome == [kind |-> "none", error |-> "", value |-> <<>>, flag |-> FALSE]
NoCall == [op |-> "none", pc |-> "idle", n |-> 0, new_done |-> 0, out |-> NoOutcome]

NoProgress == [exists |-> FALSE, task_id |-> 0, todo |-> 0, done |-> 0, tombstone |-> "f"]
NoModel    == [state |-> "", dialogue |-> <<>>, task_error |-> [null |-> TRUE, recs |-> <<>>],
               actor_input |-> ""]
NoOp       == [op |-> "none", event |-> "", arg |-> ""]
NoResp     == [kind |-> "none"]
NoDag      == [st |-> "idle", left |-> 0, event |-> "", state |-> "", result |-> "",
               by |-> "none"]

\* SessionManager.create_new_session: the initial state's template is
\* rendered and recorded as an assistant element, the model is stored
NewSessionModel ==
    [state       |-> InitialState,
     dialogue    |-> <<[actor |-> "assistant", actor_text |-> render_template(InitialState)]>>,
     task_error  |-> [null |-> TRUE, recs |-> <<>>],
     actor_input |-> ""]

\* a new session, nothing sent to it yet
SessionInit ==
    /\ store = NewSessionModel
    /\ progress = NoProgress
    /\ lock = "free"
    /\ cpc = [c \in Clients |-> "idle"]
    /\ cop = [c \in Clients |-> NoOp]
    /\ cmodel = [c \in Clients |-> NoModel]
    /\ cresp = [c \in Clients |-> NoResp]
    /\ dag = [d \in DagIds |-> NoDag]
    /\ wmodel = [d \in DagIds |-> NoModel]
    /\ cbSucc = 0
    /\ cbFail = 0
    /\ cbpc = "idle"
    /\ nEvents = 0
    /\ nDags = 0

\* nothing is being serialized
NoBlob == [exists |-> FALSE, bytes |-> <<>>]
NoObject == [session_id |-> "", actor |-> "", dialogue |-> <<>>]
NoResult == [kind |-> "none", error |-> "", model |-> NoObject]
NoSer == [pc |-> "idle", op |-> "none", m |-> NoObject,
          compression |-> FALSE, version |-> 0, cls_version |-> 0,
          blob |-> NoBlob, out |-> NoResult,
          mem |-> NoObject, appended |-> <<>>, new_actor |-> ""]
\* a SecondaryStore without entries
SecKeys == {"test", "other"}
NoPayloads == [k \in SecKeys |-> <<>>]
NoSec == [root |-> [k \in SecKeys |-> ""], states |-> [k \in SecKeys |-> "none"],
          payloads |-> NoPayloads, op |-> "none", keys |-> <<>>, tick |-> 0,
          error |-> ""]
\* an InvokersPool nothing uses
MaxPoolSize == 2
Invocations == {"t1", "t2", "t3"}
NoInvocation == [pc |-> "idle", got |-> 0, holds |-> 0]
NoPool == [size |-> 0, queue |-> <<>>, current |-> 0,
           inv |-> [t \in Invocations |-> NoInvocation]]
\* an optional str: None, or a str
PyNone == [none |-> TRUE, str |-> ""]
PyStr(text) == [none |-> FALSE, str |-> text]
\* no transition under way
NoTrans == [pc |-> "idle", source |-> "", target |-> "", args |-> <<>>,
            dialogue_persistence |-> "", actor_input |-> PyStr(""),
            before |-> <<>>, dialogue |-> <<>>, raised |-> ""]
\* no reply sent
NoReply == [of |-> NoResp, status_code |-> 0, detail |-> ""]
LibInit ==
    /\ ser = NoSer
    /\ sec = NoSec
    /\ pool = NoPool
    /\ http = [c \in Clients |-> NoReply]
    /\ redelivered = {}
    /\ trans = NoTrans

Init ==
    /\ SessionInit
    /\ tpl = NoTemplate
    /\ run = <<>>
    /\ pcall = [c \in Clients |-> NoCall]
    /\ LibInit

\* ------------------------------------------------- faulty variants
\* Variants of operators below with one fault each; the properties at the
\* end of the module are meant to tell the operators from them.

\* a comparison of done against todo that lets done reach todo
done_exceeds(new_done, todo) == new_done > todo

\* a record written by progress_start that counts its tasks as done
mapping_all_done(task_id, nr_tasks_todo) ==
    [exists |-> TRUE, task_id |-> task_id, todo |-> nr_tasks_todo,
     done |-> nr_tasks_todo, tombstone |-> "f"]

\* an increment that writes the amount over the field
hincrby_overwrite(p, field, n) ==
    IF field = "todo" THEN [p EXCEPT !.exists = TRUE, !.todo = n]
    ELSE [p EXCEPT !.exists = TRUE, !.done = n]

\* a check of the progress record that finds a record whatever is stored
record_assumed == TRUE

\* an acquire that does not wait for the key to be absent
LockAcquireUnguarded == lock' = "held"

\* a context exit that releases without storing the model
exit_without_store(c, m) ==
    /\ store' = store
    /\ lock' = "free"
    /\ cmodel' = [cmodel EXCEPT ![c] = NoModel]
    /\ cpc' = [cpc EXCEPT ![c] = "idle"]

\* an enqueue that puts the DAG on the queue without a progress record
enqueue_without_record(dg, target) ==
    /\ nDags' = nDags + 1
    /\ dag' = [dg EXCEPT ![nDags + 1] =
                  [st |-> "work", left |-> 1, event |-> "ai_extraction",
                   state |-> target, result |-> "", by |-> "none"]]
    /\ progress' = progress

\* a poll that reports errors before progress
handle_poll_errors_first(m) ==
    IF ~m.task_error.null
    THEN [kind |-> "error", error |-> m.task_error.recs,
          next_actions |-> unique_events(m.state)]
    ELSE IF progress.exists
    THEN [kind |-> "progress", next_actions |-> <<"poll">>,
          total_number_of_subtasks |-> progress.todo,
          number_of_subtasks_executed |-> progress.done]
    ELSE [kind |-> "response",
          response |-> m.dialogue[Len(m.dialogue)].actor_text,
          next_actions |-> unique_events(m.state)]

\* a rejection that does not list the possible events
rejection_without_events(m, ev) ==
    [kind |-> "rejected",
     current_state |-> [id |-> m.state, name |-> StateName(m.state)],
     possible_events |-> <<>>,
     received_event |-> ev]

\* ------------------------------------------------------ session lock
\* redis_lock.Lock.acquire (blocking): taken only when the key is absent
LockAcquire == lock = "free" /\ lock' = "held"

\* redis_lock.Lock.release
LockRelease == lock' = "free"

\* faulty variant: the model is loaded without its task_error
retrieve_without_error ==
    [store EXCEPT !.task_error = [null |-> TRUE, recs |-> <<>>]]

\* SessionLockManager._retrieve_model / store_model
retrieve_model == store

\* ------------------------------------------------------ progress record
\* One record per session: the record enqueue_task inserts, the callbacks
\* and trigger_ai_event update and delete, is the record progress_exists and
\* progress_status read.
progress_exists == progress.exists

progress_status == <<progress.todo, progress.done>>

\* TaskCompiler: the DAG compiled for a target state, as the chain of its
\* progress-logging tasks followed by trigger_ai_event
CompiledDag(target) ==
    [st     |-> "work",
     left   |-> NrTasks(get_template_for_state(target)) - 1,
     event  |-> unique_events(target)[1],
     state  |-> target,
     result |-> "",
     by     |-> "none"]

\* CeleryManager.enqueue_task: the DAG for the target state is compiled and
\* put on the queue, and its progress record inserted; dg is the DAG table
\* as the caller leaves it
enqueue_task(dg, target) ==
    /\ nDags' = nDags + 1
    /\ dag' = [dg EXCEPT ![nDags + 1] = CompiledDag(target)]
    /\ progress' = [exists |-> TRUE, task_id |-> nDags + 1,
                    todo |-> NrTasks(get_template_for_state(target)),
                    done |-> 0, tombstone |-> "f"]

\* TransitionManager.on_transition
on_transition(dg, m, ev, arg) ==
    IF Enqueues(m, ev, arg)
    THEN enqueue_task(dg, ChosenTransition(m.state, ev, arg).target)
    ELSE dag' = dg /\ UNCHANGED <<nDags, progress>>

\* -------------------------------------------------------- SessionManager
has_errors(m) == ~m.task_error.null

current_response_text(m) == m.dialogue[Len(m.dialogue)].actor_text

\* SessionManager._handle_poll
handle_poll(m) ==
    IF progress_exists
    THEN [kind |-> "progress", next_actions |-> <<"poll">>,
          total_number_of_subtasks |-> progress_status[1],
          number_of_subtasks_executed |-> progress_status[2]]
    ELSE IF has_errors(m)
    THEN [kind |-> "error", error |-> m.task_error.recs,
          next_actions |-> unique_events(m.state)]
    ELSE [kind |-> "response",
          response |-> IF m.dialogue = <<>> THEN "" ELSE current_response_text(m),
          next_actions |-> unique_events(m.state)]

\* the error response of process_event for TransitionNotAllowed
rejected_response(m, ev) ==
    [kind |-> "rejected",
     current_state |-> [id |-> m.state, name |-> StateName(m.state)],
     possible_events |-> unique_events(m.state),
     received_event |-> ev]

\* process_event: the lock is acquired and the model loaded
ProcessEventAcquire(c) ==
    /\ cpc[c] = "idle"
    /\ \E ev \in ClientEvents \cup {"poll"} : \E arg \in ArgsFor(ev) :
          /\ ev # "poll" => nEvents < MaxEvents
          /\ cop' = [cop EXCEPT ![c] = [op |-> "event", event |-> ev, arg |-> arg]]
          /\ nEvents' = IF ev = "poll" THEN nEvents ELSE nEvents + 1
    /\ LockAcquire
    /\ cmodel' = [cmodel EXCEPT ![c] = retrieve_model]
    /\ cresp' = [cresp EXCEPT ![c] = NoResp]
    /\ cpc' = [cpc EXCEPT ![c] = "pe_locked"]
    /\ UNCHANGED <<store, progress, dag, wmodel, cbSucc, cbFail, cbpc, nDags>>
    /\ UNCHANGED dagvars

\* faulty variant: the exit persists the model without its task_error
exit_clearing_errors(c, m) ==
    /\ store' = [m EXCEPT !.task_error = [null |-> TRUE, recs |-> <<>>]]
    /\ LockRelease
    /\ cmodel' = [cmodel EXCEPT ![c] = NoModel]
    /\ cpc' = [cpc EXCEPT ![c] = "idle"]

\* ModelContextManager.__exit__: the model is stored, the lock released
context_exit(c, m) ==
    /\ store' = m
    /\ LockRelease
    /\ cmodel' = [cmodel EXCEPT ![c] = NoModel]
    /\ cpc' = [cpc EXCEPT ![c] = "idle"]

\* process_event, event = poll
HandlePoll(c) ==
    /\ cpc[c] = "pe_locked"
    /\ cop[c].event = "poll"
    /\ cresp' = [cresp EXCEPT ![c] = handle_poll(cmodel[c])]
    /\ context_exit(c, cmodel[c])
    /\ UNCHANGED <<progress, cop, dag, wmodel, cbSucc, cbFail, cbpc, nEvents, nDags>>
    /\ UNCHANGED dagvars

\* process_event, _handle_event raises TransitionNotAllowed
HandleEventRejected(c) ==
    /\ cpc[c] = "pe_locked"
    /\ cop[c].event # "poll"
    /\ TransitionNotAllowed(cmodel[c].state, cop[c].event, cop[c].arg)
    /\ cresp' = [cresp EXCEPT ![c] = rejected_response(cmodel[c], cop[c].event)]
    /\ context_exit(c, cmodel[c])
    /\ UNCHANGED <<progress, cop, dag, wmodel, cbSucc, cbFail, cbpc, nEvents, nDags>>
    /\ UNCHANGED dagvars

\* the response _handle_event builds after the dispatch
event_response(m, exists) ==
    IF exists
    THEN [kind |-> "running", next_actions |-> <<"poll">>]
    ELSE [kind |-> "response", response |-> current_response_text(m),
          next_actions |-> unique_events(m.state)]

\* process_event, _handle_event dispatches the event
HandleEvent(c) ==
    /\ cpc[c] = "pe_locked"
    /\ cop[c].event # "poll"
    /\ ~TransitionNotAllowed(cmodel[c].state, cop[c].event, cop[c].arg)
    /\ on_transition(dag, cmodel[c], cop[c].event, cop[c].arg)
    /\ cresp' = [cresp EXCEPT ![c] =
                   event_response(SendModel(cmodel[c], cop[c].event, cop[c].arg),
                                  progress'.exists)]
    /\ context_exit(c, SendModel(cmodel[c], cop[c].event, cop[c].arg))
    /\ UNCHANGED <<cop, wmodel, cbSucc, cbFail, cbpc, nEvents>>
    /\ UNCHANGED dagvars

\* get_task_state: progress_exists is read without the lock
GetTaskStateCheck(c) ==
    /\ cpc[c] = "idle"
    /\ cop' = [cop EXCEPT ![c] = [op |-> "task_state", event |-> "", arg |-> ""]]
    /\ IF progress_exists
       THEN /\ cresp' = [cresp EXCEPT ![c] =
                           [kind |-> "status", ready |-> FALSE, next_actions |-> <<>>]]
            /\ UNCHANGED cpc
       ELSE /\ cresp' = [cresp EXCEPT ![c] = NoResp]
            /\ cpc' = [cpc EXCEPT ![c] = "ts_wait"]
    /\ UNCHANGED <<store, progress, lock, cmodel, dag, wmodel,
                   cbSucc, cbFail, cbpc, nEvents, nDags>>
    /\ UNCHANGED dagvars

\* get_task_state: SessionLockManager.get_model takes the lock and reads
GetTaskStateAcquire(c) ==
    /\ cpc[c] = "ts_wait"
    /\ LockAcquire
    /\ cmodel' = [cmodel EXCEPT ![c] = retrieve_model]
    /\ cpc' = [cpc EXCEPT ![c] = "ts_locked"]
    /\ UNCHANGED <<store, progress, cop, cresp, dag, wmodel,
                   cbSucc, cbFail, cbpc, nEvents, nDags>>
    /\ UNCHANGED dagvars

\* get_task_state: the lock is released and the status built
GetTaskStateRelease(c) ==
    /\ cpc[c] = "ts_locked"
    /\ LockRelease
    /\ cresp' = [cresp EXCEPT ![c] =
                   [kind |-> "status", ready |-> TRUE,
                    next_actions |-> unique_events(cmodel[c].state)]]
    /\ cmodel' = [cmodel EXCEPT ![c] = NoModel]
    /\ cpc' = [cpc EXCEPT ![c] = "idle"]
    /\ UNCHANGED <<store, progress, cop, dag, wmodel,
                   cbSucc, cbFail, cbpc, nEvents, nDags>>
    /\ UNCHANGED dagvars

\* ------------------------------------------------------------ workers
\* a progress-logging task of the chain returns: the next task of the chain
\* is dispatched and the task's on_success callback is due
TaskSucceeds(d) ==
    /\ dag[d].st = "work"
    /\ dag[d].left > 0
    /\ cbSucc < MaxPending
    /\ dag' = [dag EXCEPT ![d].left = @ - 1,
                          ![d].st = IF dag[d].left = 1 THEN "trigger" ELSE "work"]
    /\ cbSucc' = cbSucc + 1
    /\ UNCHANGED <<store, progress, lock, cpc, cop, cmodel, cresp, wmodel,
                   cbFail, cbpc, nEvents, nDags>>
    /\ UNCHANGED dagvars

\* a progress-logging task raises: the chain stops, the error handler and
\* the task's on_failure callback are due
TaskFails(d) ==
    /\ dag[d].st = "work"
    /\ dag[d].left > 0
    /\ dag' = [dag EXCEPT ![d].st = "failed"]
    /\ cbFail' = cbFail + 1
    /\ UNCHANGED <<store, progress, lock, cpc, cop, cmodel, cresp, wmodel,
                   cbSucc, cbpc, nEvents, nDags>>
    /\ UNCHANGED dagvars

\* ProgressLoggingTask.on_success: under the session lock
OnSuccessAcquire ==
    /\ cbpc = "idle"
    /\ cbSucc > 0
    /\ LockAcquire
    /\ cbSucc' = cbSucc - 1
    /\ cbpc' = "on_success"
    /\ UNCHANGED <<store, progress, cpc, cop, cmodel, cresp, dag, wmodel,
                   cbFail, nEvents, nDags>>
    /\ UNCHANGED dagvars

\* on_success body: no record, return; else nr_subtasks_executed += 1
on_success(p) == IF p.exists THEN [p EXCEPT !.done = @ + 1] ELSE p

OnSuccessRun ==
    /\ cbpc = "on_success"
    /\ progress' = on_success(progress)
    /\ LockRelease
    /\ cbpc' = "idle"
    /\ UNCHANGED <<store, cpc, cop, cmodel, cresp, dag, wmodel,
                   cbSucc, cbFail, nEvents, nDags>>
    /\ UNCHANGED dagvars

\* ProgressLoggingTask.on_failure: under the session lock
OnFailureAcquire ==
    /\ cbpc = "idle"
    /\ cbFail > 0
    /\ LockAcquire
    /\ cbFail' = cbFail - 1
    /\ cbpc' = "on_failure"
    /\ UNCHANGED <<store, progress, cpc, cop, cmodel, cresp, dag, wmodel,
                   cbSucc, nEvents, nDags>>
    /\ UNCHANGED dagvars

\* on_failure body: the progress record is deleted
on_failure(p) == NoProgress

OnFailureRun ==
    /\ cbpc = "on_failure"
    /\ progress' = on_failure(progress)
    /\ LockRelease
    /\ cbpc' = "idle"
    /\ UNCHANGED <<store, cpc, cop, cmodel, cresp, dag, wmodel,
                   cbSucc, cbFail, nEvents, nDags>>
    /\ UNCHANGED dagvars

\* trigger_ai_event: the lock is acquired and the model loaded
TriggerAcquire(d) ==
    /\ dag[d].st = "trigger"
    /\ LockAcquire
    /\ \E r \in Results : dag' = [dag EXCEPT ![d].st = "tr_locked", ![d].result = r]
    /\ wmodel' = [wmodel EXCEPT ![d] = retrieve_model]
    /\ UNCHANGED <<store, progress, cpc, cop, cmodel, cresp,
                   cbSucc, cbFail, cbpc, nEvents, nDags>>
    /\ UNCHANGED dagvars

\* trigger_ai_event: no progress record raises ValueError, else it is deleted
TriggerDeleteProgress(d) ==
    /\ dag[d].st = "tr_locked"
    /\ IF ~progress_exists
       THEN /\ dag' = [dag EXCEPT ![d].st = "tr_raise"]
            /\ UNCHANGED progress
       ELSE /\ dag' = [dag EXCEPT ![d].st = "tr_send"]
            /\ progress' = NoProgress
    /\ UNCHANGED <<store, lock, cpc, cop, cmodel, cresp, wmodel,
                   cbSucc, cbFail, cbpc, nEvents, nDags>>
    /\ UNCHANGED dagvars

\* trigger_ai_event: the after-event is sent with the DAG's result and the
\* locked context left: the model is stored, the lock released; the task's
\* own on_success callback is due
TriggerSend(d) ==
    /\ dag[d].st = "tr_send"
    /\ ~TransitionNotAllowed(wmodel[d].state, dag[d].event, dag[d].result)
    /\ on_transition([dag EXCEPT ![d].st = "done", ![d].by = "trigger"],
                     wmodel[d], dag[d].event, dag[d].result)
    /\ store' = SendModel(wmodel[d], dag[d].event, dag[d].result)
    /\ LockRelease
    /\ wmodel' = [wmodel EXCEPT ![d] = NoModel]
    /\ cbSucc' = cbSucc + 1
    /\ UNCHANGED <<cpc, cop, cmodel, cresp, cbFail, cbpc, nEvents>>
    /\ UNCHANGED dagvars

\* trigger_ai_event raises (no progress record, or TransitionNotAllowed):
\* the context stores the model and releases the lock, the task has failed
TriggerRaise(d) ==
    /\ \/ dag[d].st = "tr_raise"
       \/ /\ dag[d].st = "tr_send"
          /\ TransitionNotAllowed(wmodel[d].state, dag[d].event, dag[d].result)
    /\ store' = wmodel[d]
    /\ LockRelease
    /\ wmodel' = [wmodel EXCEPT ![d] = NoModel]
    /\ dag' = [dag EXCEPT ![d].st = "failed"]
    /\ cbFail' = cbFail + 1
    /\ UNCHANGED <<progress, cpc, cop, cmodel, cresp, cbSucc, cbpc, nEvents, nDags>>
    /\ UNCHANGED dagvars

\* error_handler: the lock is acquired and the model loaded
ErrorHandlerAcquire(d) ==
    /\ dag[d].st = "failed"
    /\ LockAcquire
    /\ dag' = [dag EXCEPT ![d].st = "eh_locked"]
    /\ wmodel' = [wmodel EXCEPT ![d] = retrieve_model]
    /\ UNCHANGED <<store, progress, cpc, cop, cmodel, cresp,
                   cbSucc, cbFail, cbpc, nEvents, nDags>>
    /\ UNCHANGED dagvars

\* error_handler: task_error is initialised when None and the JSON record
\* of the failure appended
append_task_error(m, d) ==
    [m EXCEPT !.task_error =
        [null |-> FALSE,
         recs |-> Append(IF @.null THEN <<>> ELSE @.recs,
                         [session_id |-> SessionId, task_id |-> d,
                          exception |-> "exception"])]]

\* error_handler: the after-event is sent with an empty string, then the
\* error recorded, and the locked context left
ErrorHandlerRun(d) ==
    /\ dag[d].st = "eh_locked"
    /\ ~TransitionNotAllowed(wmodel[d].state, dag[d].event, "")
    /\ on_transition([dag EXCEPT ![d].st = "done", ![d].by = "error_handler"],
                     wmodel[d], dag[d].event, "")
    /\ store' = append_task_error(SendModel(wmodel[d], dag[d].event, ""), d)
    /\ LockRelease
    /\ wmodel' = [wmodel EXCEPT ![d] = NoModel]
    /\ UNCHANGED <<cpc, cop, cmodel, cresp, cbSucc, cbFail, cbpc, nEvents>>
    /\ UNCHANGED dagvars

\* error_handler: the send raises TransitionNotAllowed, the context is left
\* before the error is recorded
ErrorHandlerRaise(d) ==
    /\ dag[d].st = "eh_locked"
    /\ TransitionNotAllowed(wmodel[d].state, dag[d].event, "")
    /\ store' = wmodel[d]
    /\ LockRelease
    /\ wmodel' = [wmodel EXCEPT ![d] = NoModel]
    /\ dag' = [dag EXCEPT ![d].st = "error"]
    /\ UNCHANGED <<progress, cpc, cop, cmodel, cresp,
                   cbSucc, cbFail, cbpc, nEvents, nDags>>
    /\ UNCHANGED dagvars

\* ----------------------------------------------------------- behaviours
Next ==
    \/ \E c \in Clients : ProcessEventAcquire(c)
    \/ \E c \in Clients : HandlePoll(c)
    \/ \E c \in Clients : HandleEventRejected(c)
    \/ \E c \in Clients : HandleEvent(c)
    \/ \E c \in Clients : GetTaskStateCheck(c)
    \/ \E c \in Clients : GetTaskStateAcquire(c)
    \/ \E c \in Clients : GetTaskStateRelease(c)
    \/ \E d \in DagIds : TaskSucceeds(d)
    \/ \E d \in DagIds : TaskFails(d)
    \/ OnSuccessAcquire
    \/ OnSuccessRun
    \/ OnFailureAcquire
    \/ OnFailureRun
    \/ \E d \in DagIds : TriggerAcquire(d)
    \/ \E d \in DagIds : TriggerDeleteProgress(d)
    \/ \E d \in DagIds : TriggerSend(d)
    \/ \E d \in DagIds : TriggerRaise(d)
    \/ \E d \in DagIds : ErrorHandlerAcquire(d)
    \/ \E d \in DagIds : ErrorHandlerRun(d)
    \/ \E d \in DagIds : ErrorHandlerRaise(d)

Spec == Init /\ [][Next]_vars

TypeOK == nDags <= MaxDags /\ nEvents <= MaxEvents

\* ------------------------------------------- progress operations
\* The progress operations of the SessionLockManager on the session's
\* progress hash.  Each operation is a handful of Redis commands; a command
\* is one step, and commands of different callers interleave.
MaxTodo == 2
MaxIncrease == 1
MaxTotal == MaxTodo + MaxIncrease
MaxDone == MaxTotal + 1

\* what hget and hmget answer for a field the hash does not have
Nil == 0 - 1

\* the invocation (task id) a caller works for
TaskIdOf(c) == IF c = "c1" THEN 1 ELSE 2

\* a hash that a command on a missing key has just created, no field set yet
EmptyHash == [exists |-> TRUE, task_id |-> Nil, todo |-> Nil, done |-> Nil,
              tombstone |-> ""]

\* the Redis commands
redis_exists(p) == p.exists
redis_delete(p) == NoProgress
hget(p, field) ==
    IF ~p.exists THEN Nil
    ELSE IF field = "todo" THEN p.todo ELSE p.done
hget_tombstone(p) == IF p.exists THEN p.tombstone ELSE ""
hset_tombstone(p) ==
    IF p.exists THEN [p EXCEPT !.tombstone = "t"]
    ELSE [EmptyHash EXCEPT !.tombstone = "t"]
hincrby(p, field, n) ==
    LET h == IF p.exists THEN p ELSE EmptyHash
        old == IF field = "todo" THEN h.todo ELSE h.done
        new == IF old = Nil THEN n ELSE old + n
    IN  IF field = "todo" THEN [h EXCEPT !.todo = new] ELSE [h EXCEPT !.done = new]

\* the mapping progress_start writes
start_mapping(task_id, nr_tasks_todo) ==
    [exists |-> TRUE, task_id |-> task_id, todo |-> nr_tasks_todo,
     done |-> 0, tombstone |-> "f"]

\* progress_update_done's two tests before it deletes
done_reached(new_done, todo) == new_done >= todo
is_tombstoned(tombstone) == tombstone = "t"

Returned(value, flag) == [kind |-> "returned", error |-> "", value |-> value, flag |-> flag]
Raised(error) == [kind |-> "raised", error |-> error, value |-> <<>>, flag |-> FALSE]

\* caller c begins the operation op with argument n and goes on to pc
Begin(c, op, n, pc) ==
    pcall' = [pcall EXCEPT ![c] = [op |-> op, pc |-> pc, n |-> n, new_done |-> 0,
                                   out |-> NoOutcome]]
\* caller c begins op and it ends at once with outcome out
BeginEnd(c, op, n, out) ==
    pcall' = [pcall EXCEPT ![c] = [op |-> op, pc |-> "idle", n |-> n, new_done |-> 0,
                                   out |-> out]]
\* the call of caller c ends with outcome out
End(c, out) == pcall' = [pcall EXCEPT ![c].pc = "idle", ![c].out = out]

enginevars == <<store, lock, cpc, cop, cmodel, cresp, dag, wmodel,
                cbSucc, cbFail, cbpc, nEvents, nDags, tpl, run, libvars>>

\* progress_start: the record must not exist
ProgressStartCheck(c) ==
    /\ pcall[c].pc = "idle"
    /\ \E n \in 1..MaxTodo :
          IF redis_exists(progress)
          THEN BeginEnd(c, "progress_start", n, Raised("ValueError"))
          ELSE Begin(c, "progress_start", n, "start_hset")
    /\ UNCHANGED progress
    /\ UNCHANGED enginevars

\* progress_start: the record is written
ProgressStartHset(c) ==
    /\ pcall[c].pc = "start_hset"
    /\ progress' = start_mapping(TaskIdOf(c), pcall[c].n)
    /\ End(c, Returned(<<>>, FALSE))
    /\ UNCHANGED enginevars

ProgressExists(c) ==
    /\ pcall[c].pc = "idle"
    /\ BeginEnd(c, "progress_exists", 0, Returned(<<>>, progress_exists))
    /\ UNCHANGED progress
    /\ UNCHANGED enginevars

\* progress_update_todo: the record must exist
ProgressUpdateTodoCheck(c) ==
    /\ pcall[c].pc = "idle"
    /\ \E n \in 1..MaxIncrease :
          IF ~redis_exists(progress)
          THEN BeginEnd(c, "progress_update_todo", n, Raised("KeyError"))
          ELSE /\ hget(progress, "todo") + n <= MaxTotal
               /\ Begin(c, "progress_update_todo", n, "todo_incr")
    /\ UNCHANGED progress
    /\ UNCHANGED enginevars

ProgressUpdateTodoIncr(c) ==
    /\ pcall[c].pc = "todo_incr"
    /\ progress' = hincrby(progress, "todo", pcall[c].n)
    /\ End(c, Returned(<<hget(progress', "todo")>>, FALSE))
    /\ UNCHANGED enginevars

\* progress_update_done: the record must exist
ProgressUpdateDoneCheck(c) ==
    /\ pcall[c].pc = "idle"
    /\ IF ~redis_exists(progress)
       THEN BeginEnd(c, "progress_update_done", 1, Raised("KeyError"))
       ELSE /\ hget(progress, "done") < MaxDone
            /\ Begin(c, "progress_update_done", 1, "done_incr")
    /\ UNCHANGED progress
    /\ UNCHANGED enginevars

ProgressUpdateDoneIncr(c) ==
    /\ pcall[c].pc = "done_incr"
    /\ progress' = hincrby(progress, "done", pcall[c].n)
    /\ pcall' = [pcall EXCEPT ![c].pc = "done_todo",
                              ![c].new_done = hget(progress', "done")]
    /\ UNCHANGED enginevars

\* todo is read; int() of a missing field raises
ProgressUpdateDoneTodo(c) ==
    /\ pcall[c].pc = "done_todo"
    /\ LET todo == hget(progress, "todo")
       IN  IF todo = Nil THEN End(c, Raised("TypeError"))
           ELSE IF done_reached(pcall[c].new_done, todo)
           THEN pcall' = [pcall EXCEPT ![c].pc = "done_tombstone",
                                       ![c].out = Returned(<<todo - pcall[c].new_done>>, FALSE)]
           ELSE End(c, Returned(<<todo - pcall[c].new_done>>, FALSE))
    /\ UNCHANGED progress
    /\ UNCHANGED enginevars

ProgressUpdateDoneTombstone(c) ==
    /\ pcall[c].pc = "done_tombstone"
    /\ IF is_tombstoned(hget_tombstone(progress))
       THEN pcall' = [pcall EXCEPT ![c].pc = "done_delete"]
       ELSE pcall' = [pcall EXCEPT ![c].pc = "idle"]
    /\ UNCHANGED progress
    /\ UNCHANGED enginevars

ProgressUpdateDoneDelete(c) ==
    /\ pcall[c].pc = "done_delete"
    /\ progress' = redis_delete(progress)
    /\ pcall' = [pcall EXCEPT ![c].pc = "idle"]
    /\ UNCHANGED enginevars

\* progress_tombstone: the record must exist
ProgressTombstoneCheck(c) ==
    /\ pcall[c].pc = "idle"
    /\ IF ~redis_exists(progress)
       THEN BeginEnd(c, "progress_tombstone", 0, Raised("KeyError"))
       ELSE Begin(c, "progress_tombstone", 0, "tombstone_hset")
    /\ UNCHANGED progress
    /\ UNCHANGED enginevars

ProgressTombstoneHset(c) ==
    /\ pcall[c].pc = "tombstone_hset"
    /\ progress' = hset_tombstone(progress)
    /\ End(c, Returned(<<>>, FALSE))
    /\ UNCHANGED enginevars

\* progress_status: both fields are read by one command
ProgressStatus(c) ==
    /\ pcall[c].pc = "idle"
    /\ IF hget(progress, "todo") = Nil \/ hget(progress, "done") = Nil
       THEN BeginEnd(c, "progress_status", 0, Raised("KeyError"))
       ELSE BeginEnd(c, "progress_status", 0, Returned(progress_status, FALSE))
    /\ UNCHANGED progress
    /\ UNCHANGED enginevars

ProgressNext ==
    \/ \E c \in Clients : ProgressStartCheck(c)
    \/ \E c \in Clients : ProgressStartHset(c)
    \/ \E c \in Clients : ProgressExists(c)
    \/ \E c \in Clients : ProgressUpdateTodoCheck(c)
    \/ \E c \in Clients : ProgressUpdateTodoIncr(c)
    \/ \E c \in Clients : ProgressUpdateDoneCheck(c)
    \/ \E c \in Clients : ProgressUpdateDoneIncr(c)
    \/ \E c \in Clients : ProgressUpdateDoneTodo(c)
    \/ \E c \in Clients : ProgressUpdateDoneTombstone(c)
    \/ \E c \in Clients : ProgressUpdateDoneDelete(c)
    \/ \E c \in Clients : ProgressTombstoneCheck(c)
    \/ \E c \in Clients : ProgressTombstoneHset(c)
    \/ \E c \in Clients : ProgressStatus(c)

ProgressSpec == Init /\ [][ProgressNext]_vars

\* ------------------------------------------------- compiled templates
\* The task compiler and the tasks it chains, run by Celery: a task of a
\* chain starts when its predecessor has returned and receives that task's
\* return value as its first argument; the body of a chord starts when every
\* task of its header has returned and receives their return values in the
\* order of the header.
MaxLen == 3
MaxNested == 2
MaxKeys == 2

\* template expressions: a template name, a task reference, a list, a dict
\* and a map-over
Leaf(nm) == [k |-> "str", name |-> nm, keys |-> <<>>, items |-> <<>>]
TaskRef(nm) == [k |-> "task", name |-> nm, keys |-> <<>>, items |-> <<>>]
ListOf(items) == [k |-> "list", name |-> "", keys |-> <<>>, items |-> items]
DictOf(keys, items) == [k |-> "dict", name |-> "", keys |-> keys, items |-> items]
MapOver(nm) == [k |-> "map", name |-> nm, keys |-> <<>>, items |-> <<>>]

SeqsOf(S, n) == UNION {[1..m -> S] : m \in 1..n}
KeyLists == {ks \in SeqsOf({"k1", "k2"}, MaxKeys) :
                \A i, j \in 1..Len(ks) : i # j => ks[i] # ks[j]}
DictsOf(S) ==
    UNION {{DictOf(ks, items) : items \in [1..Len(ks) -> S]} : ks \in KeyLists}
\* "a" names a template whose invocation returns plain text, "j" one whose
\* invocation returns JSON text
Leaves == {Leaf("a"), Leaf("j"), TaskRef("a")}
FlatExprs == Leaves \cup {ListOf(items) : items \in SeqsOf(Leaves, MaxLen)}
                    \cup DictsOf(Leaves)
TemplateExprs ==
    FlatExprs \cup {ListOf(items) : items \in SeqsOf(FlatExprs, MaxNested)}
              \cup DictsOf(FlatExprs)

\* values: a Python str or dict written as a sequence of tokens; JSON text
\* is the token "json" followed by the value it encodes
json_dumps(v) == <<"json">> \o v
json_loads(s) == Tail(s)
is_json(s) == Len(s) > 0 /\ Head(s) = "json"
parse_if_json(s) == IF is_json(s) THEN json_loads(s) ELSE s
parse_result(s) == IF is_json(s) THEN json_loads(s) ELSE s

RECURSIVE zip_items(_, _, _)
zip_items(keys, values, i) ==
    IF i > Len(keys) \/ i > Len(values) THEN <<>>
    ELSE <<keys[i], ":">> \o values[i] \o <<";">> \o zip_items(keys, values, i + 1)
\* dict(zip(keys, values))
dict_zip(keys, values) == <<"{">> \o zip_items(keys, values, 1) \o <<"}">>

\* the render data frozen at enqueue, and the slot of a task that has none
RootRenderData == [previous_result |-> <<"unset">>, parsed_previous_result |-> <<"unset">>]
NoRenderData == [previous_result |-> <<>>, parsed_previous_result |-> <<>>]

\* the text an invocation returns: a text of its own for every invocation
invoke_template(nm, i) ==
    IF nm = "j" THEN json_dumps(<<"str", nm, ToString(i)>>)
    ELSE <<"str", nm, ToString(i)>>

\* a combine that pairs the keys with the results in reverse order
combine_reversed(results, keys) ==
    json_dumps(dict_zip(keys, [i \in 1..Len(results) |->
                                  parse_if_json(results[Len(results) + 1 - i])]))

\* a chained_template that passes the render data on as it was
chained_without_result(result_of_previous_call, render_data) == render_data

\* combine_group_to_dict
combine_group_to_dict(results, keys) ==
    json_dumps(dict_zip(keys, [i \in 1..Len(results) |-> parse_if_json(results[i])]))

\* chained_template
chained_template(result_of_previous_call, render_data) ==
    [render_data EXCEPT !.previous_result = result_of_previous_call,
                        !.parsed_previous_result = parse_result(result_of_previous_call)]

\* a task of the compiled graph: after is the task whose return value it
\* receives (0: the arguments of apply_async), members the header of a chord
\* body; st, the received arguments and the return value are its run state
TaskSig(kind, nm, keys, after, members) ==
    [kind |-> kind, name |-> nm, keys |-> keys, after |-> after, members |-> members,
     st |-> "waiting", in_rd |-> NoRenderData, in_res |-> <<>>, in_results |-> <<>>,
     out_rd |-> NoRenderData, out_res |-> <<>>]

\* _compile_task_graph: the tasks of template t, numbered from base + 1, the
\* first of them receiving the return value of task src
RECURSIVE compile_task_graph(_, _, _)
RECURSIVE compile_list(_, _, _, _, _)
RECURSIVE compile_dict(_, _, _, _, _, _)
compile_list(items, i, base, src, chained) ==
    IF i > Len(items) THEN chained
    ELSE IF i = 1
    THEN compile_list(items, 2, base, src, compile_task_graph(items[1], base, src))
    ELSE LET prev == base + Len(chained)
             link == TaskSig("chained", "", <<>>, prev, <<>>)
         IN  compile_list(items, i + 1, base, src,
                          chained \o <<link>>
                              \o compile_task_graph(items[i], prev + 1, prev + 1))
compile_dict(dict_keys, items, i, base, src, header) ==
    IF i > Len(dict_keys) THEN header
    ELSE LET member == compile_task_graph(items[i], base + Len(header.tasks), src)
         IN  compile_dict(dict_keys, items, i + 1, base, src,
                          [tasks |-> header.tasks \o member,
                           outs |-> Append(header.outs,
                                           base + Len(header.tasks) + Len(member))])
compile_task_graph(t, base, src) ==
    CASE t.k = "str" -> <<TaskSig("invoke", t.name, <<>>, src, <<>>)>>
      [] t.k = "task" -> <<TaskSig("task", t.name, <<>>, src, <<>>)>>
      [] t.k = "list" -> compile_list(t.items, 1, base, src, <<>>)
      [] t.k = "dict" ->
            LET header == compile_dict(t.keys, t.items, 1, base, src,
                                       [tasks |-> <<>>, outs |-> <<>>])
            IN  header.tasks \o <<TaskSig("combine", "", t.keys, 0, header.outs)>>
      [] t.k = "map" -> <<TaskSig("map", t.name, <<>>, src, <<>>)>>

\* _compile_task: the graph followed by trigger_ai_event
compile_task(t) ==
    LET graph == compile_task_graph(t, 0, 0)
    IN  graph \o <<TaskSig("trigger", "", <<>>, Len(graph), <<>>)>>

\* the counter _compile_task_graph keeps
RECURSIVE count_tasks(_)
RECURSIVE count_items(_, _)
count_items(items, i) ==
    IF i > Len(items) THEN 0 ELSE count_tasks(items[i]) + count_items(items, i + 1)
count_tasks(t) ==
    CASE t.k = "str" -> 1
      [] t.k = "task" -> 1
      [] t.k = "list" -> count_items(t.items, 1) + (Len(t.items) - 1)
      [] t.k = "dict" -> count_items(t.items, 1) + 1
      [] t.k = "map" -> 1
\* a count that leaves out the final trigger_ai_event
count_without_trigger(t) == count_tasks(t)

\* nr_tasks after _compile_task
nr_tasks(t) == count_tasks(t) + 1

\* the compiler has compiled the template it was given
DagInit ==
    /\ SessionInit
    /\ tpl \in TemplateExprs
    /\ run = compile_task(tpl)
    /\ pcall = [c \in Clients |-> NoCall]
    /\ LibInit

\* Celery starts a task when what it waits for has returned
Ready(i) ==
    /\ run[i].st = "waiting"
    /\ IF run[i].kind = "combine"
       THEN \A m \in 1..Len(run[i].members) : run[run[i].members[m]].st = "done"
       ELSE IF run[i].after = 0 THEN TRUE ELSE run[run[i].after].st = "done"

dagframe == <<store, progress, lock, cpc, cop, cmodel, cresp, dag, wmodel,
              cbSucc, cbFail, cbpc, nEvents, nDags, tpl, pcall, libvars>>

\* invoke_task, or a referenced task, with the render data it receives
RunInvoke(i) ==
    /\ run[i].kind \in {"invoke", "task"}
    /\ Ready(i)
    /\ run' = [run EXCEPT ![i].st = "done",
                          ![i].in_rd = IF run[i].after = 0 THEN RootRenderData
                                       ELSE run[run[i].after].out_rd,
                          ![i].out_res = invoke_template(run[i].name, i)]
    /\ UNCHANGED dagframe

\* chained_template with the return value of the task before it
RunChained(i) ==
    /\ run[i].kind = "chained"
    /\ Ready(i)
    /\ run' = [run EXCEPT ![i].st = "done",
                          ![i].in_res = run[run[i].after].out_res,
                          ![i].out_rd = chained_template(run[run[i].after].out_res,
                                                         RootRenderData)]
    /\ UNCHANGED dagframe

\* combine_group_to_dict with the return values of the header in its order
RunCombine(i) ==
    /\ run[i].kind = "combine"
    /\ Ready(i)
    /\ LET results == [m \in 1..Len(run[i].members) |-> run[run[i].members[m]].out_res]
       IN  run' = [run EXCEPT ![i].st = "done",
                              ![i].in_results = results,
                              ![i].out_res = combine_group_to_dict(results, run[i].keys)]
    /\ UNCHANGED dagframe

\* trigger_ai_event with the return value of the graph as its response
RunTrigger(i) ==
    /\ run[i].kind = "trigger"
    /\ Ready(i)
    /\ run' = [run EXCEPT ![i].st = "done",
                          ![i].in_res = run[run[i].after].out_res]
    /\ UNCHANGED dagframe

DagNext ==
    \/ \E i \in DOMAIN run : RunInvoke(i)
    \/ \E i \in DOMAIN run : RunChained(i)
    \/ \E i \in DOMAIN run : RunCombine(i)
    \/ \E i \in DOMAIN run : RunTrigger(i)

DagSpec == DagInit /\ [][DagNext]_vars

\* ------------------------------------------------------------- map-over
\* The session engine with a DAG whose template is a map-over: map_task
\* replaces itself, at run time, by a chord of one invoke_task per element
\* of the mapped list and combine_group_to_list.
MaxFanOut == 2

\* the session as process_event leaves it after user_input "a", the template
\* of ai_extracts_name being a map-over: DAG 1 (map_task, trigger_ai_event)
\* is on the queue and its progress record inserted
MapInit ==
    /\ store = SendModel(NewSessionModel, "user_input", "a")
    /\ progress = [exists |-> TRUE, task_id |-> 1, todo |-> nr_tasks(MapOver("a")),
                   done |-> 0, tombstone |-> "f"]
    /\ lock = "free"
    /\ cpc = [c \in Clients |-> "idle"]
    /\ cop = [c \in Clients |-> NoOp]
    /\ cmodel = [c \in Clients |-> NoModel]
    /\ cresp = [c \in Clients |-> NoResp]
    /\ dag = [d \in DagIds |->
                IF d = 1
                THEN [CompiledDag("ai_extracts_name") EXCEPT !.st = "map", !.left = 0]
                ELSE NoDag]
    /\ wmodel = [d \in DagIds |-> NoModel]
    /\ cbSucc = 0
    /\ cbFail = 0
    /\ cbpc = "idle"
    /\ nEvents = 1
    /\ nDags = 1
    /\ tpl = MapOver("a")
    /\ run = <<>>
    /\ pcall = [c \in Clients |-> NoCall]
    /\ LibInit

\* map_task: the mapped list has k elements; the task is replaced by the
\* chord of k invoke tasks and the combine task, so that its own on_success
\* callback is not due; the progress record is not touched
MapTaskRuns(d) ==
    /\ dag[d].st = "map"
    /\ \E k \in 1..MaxFanOut :
          dag' = [dag EXCEPT ![d].st = "work", ![d].left = k + 1]
    /\ UNCHANGED <<store, progress, lock, cpc, cop, cmodel, cresp, wmodel,
                   cbSucc, cbFail, cbpc, nEvents, nDags>>
    /\ UNCHANGED dagvars

MapNext ==
    \/ \E d \in DagIds : MapTaskRuns(d)
    \/ \E c \in Clients : ProcessEventAcquire(c)
    \/ \E c \in Clients : HandlePoll(c)
    \/ \E c \in Clients : HandleEventRejected(c)
    \/ \E c \in Clients : HandleEvent(c)
    \/ \E c \in Clients : GetTaskStateCheck(c)
    \/ \E c \in Clients : GetTaskStateAcquire(c)
    \/ \E c \in Clients : GetTaskStateRelease(c)
    \/ \E d \in DagIds : TaskSucceeds(d)
    \/ \E d \in DagIds : TaskFails(d)
    \/ OnSuccessAcquire
    \/ OnSuccessRun
    \/ OnFailureAcquire
    \/ OnFailureRun
    \/ \E d \in DagIds : TriggerAcquire(d)
    \/ \E d \in DagIds : TriggerDeleteProgress(d)
    \/ \E d \in DagIds : TriggerSend(d)
    \/ \E d \in DagIds : TriggerRaise(d)
    \/ \E d \in DagIds : ErrorHandlerAcquire(d)
    \/ \E d \in DagIds : ErrorHandlerRun(d)
    \/ \E d \in DagIds : ErrorHandlerRaise(d)

MapSpec == MapInit /\ [][MapNext]_vars

\* -------------------------------------------------------- serialization
\* Bytes are written as sequences of tokens: a token is one byte (":", "0",
\* "1", a brace) or a run of bytes without any structure of its own (a key,
\* a session id, a text).  A text may itself be the byte ":".
MaxDialogue == 2
MaxVersion == 1
SessionIds == {"s1", "s2"}
Actors == {"user", "assistant"}
Texts == {"hi", ":"}
Versions == 0..MaxVersion
DialogueElements == [actor : Actors, actor_text : Texts]
Dialogues == UNION {[1..n -> DialogueElements] : n \in 0..MaxDialogue}
ModelActors == {"user", "test-actor"}
GenieModels == [session_id : SessionIds, actor : ModelActors, dialogue : Dialogues]

Loaded(m) == [kind |-> "returned", error |-> "", model |-> m]
Failed(error) == [kind |-> "raised", error |-> error, model |-> NoObject]
Blob(bytes) == [exists |-> TRUE, bytes |-> bytes]

\* model_dump_json
RECURSIVE dump_dialogue(_, _)
dump_dialogue(d, i) ==
    IF i > Len(d) THEN <<>>
    ELSE <<"{", d[i].actor, ":", d[i].actor_text, "}">> \o dump_dialogue(d, i + 1)
model_dump_json(m) ==
    IF "lastname" \in DOMAIN m THEN <<"{", "lastname", ":", m.lastname, "}">>
    ELSE <<"{", "session_id", ":", m.session_id, "actor", ":", m.actor,
           "dialogue", ":", "[">>
             \o dump_dialogue(m.dialogue, 1) \o <<"]", "}">>

\* model_validate_json: the text is parsed by position, a text between its
\* quotes is taken as it is; the text of a User has the one field lastname
ElementAt(s, i) == SubSeq(s, 11 + 5 * (i - 1), 15 + 5 * (i - 1))
WellFormed(s) ==
    /\ Len(s) >= 12
    /\ (Len(s) - 12) % 5 = 0
    /\ SubSeq(s, 1, 3) = <<"{", "session_id", ":">>
    /\ SubSeq(s, 5, 6) = <<"actor", ":">>
    /\ SubSeq(s, 8, 10) = <<"dialogue", ":", "[">>
    /\ SubSeq(s, Len(s) - 1, Len(s)) = <<"]", "}">>
    /\ \A i \in 1..((Len(s) - 12) \div 5) :
          /\ ElementAt(s, i)[1] = "{"
          /\ ElementAt(s, i)[2] \in {"system", "assistant", "user"}
          /\ ElementAt(s, i)[3] = ":"
          /\ ElementAt(s, i)[5] = "}"
model_validate_json(s) ==
    IF Len(s) = 5 /\ SubSeq(s, 1, 3) = <<"{", "lastname", ":">> /\ s[5] = "}"
    THEN [kind |-> "returned", error |-> "", model |-> [lastname |-> s[4]]]
    ELSE IF ~WellFormed(s) THEN Failed("ValidationError")
    ELSE Loaded([session_id |-> s[4],
                 actor |-> s[7],
                 dialogue |-> [i \in 1..((Len(s) - 12) \div 5) |->
                                  [actor |-> ElementAt(s, i)[2],
                                   actor_text |-> ElementAt(s, i)[4]]]])

\* snappy: the length of the text, a literal tag, the text
snappy_compress(b) == <<ToString(Len(b)), "lit">> \o b
snappy_ok(p) == Len(p) >= 2 /\ p[1] = ToString(Len(p) - 2) /\ p[2] = "lit"
snappy_decompress(p) == SubSeq(p, 3, Len(p))

\* bytes.split(b":", maxsplit=2): the parts around the first two separators
Positions(b, tok) == {i \in 1..Len(b) : b[i] = tok}
Lowest(S) == CHOOSE x \in S : \A y \in S : x <= y
split_maxsplit_2(b) ==
    LET seps == Positions(b, ":")
    IN  IF Cardinality(seps) < 2 THEN <<b>>
        ELSE LET i == Lowest(seps)
                 j == Lowest(seps \ {i})
             IN  <<SubSeq(b, 1, i - 1), SubSeq(b, i + 1, j - 1),
                   SubSeq(b, j + 1, Len(b))>>
\* b":".join of the three parts
join(version, flag, payload) == <<version, ":", flag, ":">> \o payload

\* int() of the bytes of a number; Nil when they are none
int_of(b) ==
    IF \E v \in Versions : b = <<ToString(v)>>
    THEN CHOOSE v \in Versions : b = <<ToString(v)>>
    ELSE Nil

\* an attribute of a model object: the fields its class declares
HasAttr(m, name) == name \in DOMAIN m

\* VersionedModel.serialize(self, compression) of a model whose class has
\* schema version `version`: the flag is read from the attribute
\* `compression` of the model
serialize(m, version, compression) ==
    LET model_dump == model_dump_json(m)
        payload == IF compression THEN snappy_compress(model_dump) ELSE model_dump
    IN  IF ~HasAttr(m, "compression") THEN [raised |-> "AttributeError", bytes |-> <<>>]
        ELSE [raised |-> "",
              bytes |-> join(ToString(version), IF m.compression THEN "1" ELSE "0",
                             payload)]

\* SessionLockManager._serialize with the compression setting of the manager
manager_serialize(m, version, compression) ==
    LET model_dump == model_dump_json(m)
        payload == IF compression THEN snappy_compress(model_dump) ELSE model_dump
    IN  join(ToString(version), IF compression THEN "1" ELSE "0", payload)

\* a deserializer that loads whatever version it is given
deserialize_any_version(payload, cls_version) ==
    LET parts == split_maxsplit_2(payload)
    IN  IF Len(parts) # 3 THEN Failed("ValueError")
        ELSE IF parts[2] = <<"1">>
        THEN IF snappy_ok(parts[3]) THEN model_validate_json(snappy_decompress(parts[3]))
             ELSE Failed("UncompressError")
        ELSE model_validate_json(parts[3])

\* VersionedModel.deserialize(cls, payload) for a class of schema version
\* cls_version
deserialize(payload, cls_version) ==
    LET parts == split_maxsplit_2(payload)
    IN  IF Len(parts) # 3 THEN Failed("ValueError")
        ELSE IF int_of(parts[1]) # cls_version THEN Failed("ValueError")
        ELSE IF parts[2] = <<"1">>
        THEN IF snappy_ok(parts[3]) THEN model_validate_json(snappy_decompress(parts[3]))
             ELSE Failed("UncompressError")
        ELSE model_validate_json(parts[3])

\* SessionLockManager._deserialize(payload, model_cls)
manager_deserialize(payload, cls_version) ==
    LET parts == split_maxsplit_2(payload)
    IN  IF Len(parts) # 3 THEN Failed("ValueError")
        ELSE IF int_of(parts[1]) # cls_version THEN Failed("ValueError")
        ELSE IF parts[2] = <<"1">>
        THEN IF snappy_ok(parts[3]) THEN model_validate_json(snappy_decompress(parts[3]))
             ELSE Failed("UncompressError")
        ELSE model_validate_json(parts[3])

\* a model of a class of schema version `version`, a compression setting,
\* and the schema version the class has when the bytes are read back
SerInit ==
    /\ SessionInit
    /\ tpl = NoTemplate
    /\ run = <<>>
    /\ pcall = [c \in Clients |-> NoCall]
    /\ \E m \in GenieModels, compression \in BOOLEAN, version \in Versions,
          cls_version \in Versions :
          ser = [NoSer EXCEPT !.pc = "ready", !.m = m, !.compression = compression,
                              !.version = version, !.cls_version = cls_version]
    /\ sec = NoSec
    /\ pool = NoPool
    /\ http = [c \in Clients |-> NoReply]
    /\ redelivered = {}
    /\ trans = NoTrans

serframe == <<store, progress, lock, cpc, cop, cmodel, cresp, dag, wmodel,
              cbSucc, cbFail, cbpc, nEvents, nDags, tpl, run, pcall, sec, pool, http, redelivered, trans>>
ctxframe == <<store, progress, cpc, cop, cmodel, cresp, dag, wmodel,
              cbSucc, cbFail, cbpc, nEvents, nDags, tpl, run, pcall, sec, pool, http, redelivered, trans>>

\* m.serialize(compression)
ModelSerialize ==
    /\ ser.pc = "ready"
    /\ LET s == serialize(ser.m, ser.version, ser.compression)
       IN  ser' = IF s.raised # ""
                  THEN [ser EXCEPT !.pc = "done", !.op = "serialize",
                                   !.out = Failed(s.raised)]
                  ELSE [ser EXCEPT !.pc = "serialized", !.op = "serialize",
                                   !.blob = Blob(s.bytes)]
    /\ UNCHANGED serframe

\* store_model(m): the serialized model is set under the key of the session
store_model(m, version, compression) == Blob(manager_serialize(m, version, compression))
StoreModel ==
    /\ ser.pc = "ready"
    /\ ser' = [ser EXCEPT !.pc = "serialized", !.op = "store_model",
                          !.blob = store_model(ser.m, ser.version, ser.compression)]
    /\ UNCHANGED serframe

\* cls.deserialize(payload)
ModelDeserialize ==
    /\ ser.pc = "serialized"
    /\ lock = "free"
    /\ ser' = [ser EXCEPT !.pc = "done", !.op = "deserialize",
                          !.out = deserialize(ser.blob.bytes, ser.cls_version)]
    /\ UNCHANGED serframe

\* _retrieve_model: the payload under the key, KeyError when there is none
manager_retrieve(blob, cls_version) ==
    IF ~blob.exists THEN Failed("KeyError")
    ELSE manager_deserialize(blob.bytes, cls_version)

\* get_model(session_id, model_class), under the lock of the session
GetModel ==
    /\ ser.pc = "serialized"
    /\ lock = "free"
    /\ ser' = [ser EXCEPT !.pc = "done", !.op = "get_model",
                          !.out = manager_retrieve(ser.blob, ser.cls_version)]
    /\ UNCHANGED serframe

\* ModelContextManager.__enter__: the lock is acquired, then the model
\* retrieved; when that raises the context is never entered and __exit__
\* not called
GetLockedModel ==
    /\ ser.pc = "serialized"
    /\ LockAcquire
    /\ LET got == manager_retrieve(ser.blob, ser.cls_version)
       IN  ser' = IF got.kind = "raised"
                  THEN [ser EXCEPT !.pc = "done", !.op = "get_locked_model",
                                   !.out = got]
                  ELSE [ser EXCEPT !.pc = "locked", !.op = "get_locked_model",
                                   !.mem = got.model]
    /\ UNCHANGED ctxframe

\* the body of the context appends a dialogue element to the model
MaxAppend == 1
ContextAppend ==
    /\ ser.pc = "locked"
    /\ Len(ser.appended) < MaxAppend
    /\ \E de \in DialogueElements :
          ser' = [ser EXCEPT !.mem.dialogue = Append(@, de),
                             !.appended = Append(@, de)]
    /\ UNCHANGED lock
    /\ UNCHANGED ctxframe

\* the body of the context sets the actor of the model
ContextSetActor ==
    /\ ser.pc = "locked"
    /\ \E a \in ModelActors :
          /\ a # ser.mem.actor
          /\ ser' = [ser EXCEPT !.mem.actor = a, !.new_actor = a]
    /\ UNCHANGED lock
    /\ UNCHANGED ctxframe

\* a context that leaves without storing
exit_discard(blob, m, version, compression) == blob

\* ModelContextManager.__exit__: store_model(self.model)
exit_store(blob, m, version, compression) == store_model(m, version, compression)

\* ModelContextManager.__exit__: the model is stored, the lock released
ContextExit ==
    /\ ser.pc = "locked"
    /\ ser' = [ser EXCEPT !.pc = "serialized", !.op = "context_exit",
                          !.blob = exit_store(ser.blob, ser.mem, ser.cls_version,
                                              ser.compression),
                          !.mem = NoObject]
    /\ LockRelease
    /\ UNCHANGED ctxframe

SerNext ==
    \/ ModelSerialize
    \/ StoreModel
    \/ ModelDeserialize
    \/ GetModel
    \/ GetLockedModel
    \/ ContextAppend
    \/ ContextSetActor
    \/ ContextExit

SerSpec == SerInit /\ [][SerNext]_vars

\* ---------------------------------------------------- secondary storage
\* A SecondaryStore: root maps a key to the entry under it, _states to the
\* persistence state of the key.  An entry is a User, written by its
\* lastname ("" where root has no entry); the state "none" stands for a key
\* that _states does not hold.
MaxMarked == 2
Lastnames == {"Noot", "TESTING123"}
UserFqn == "genie_flow.model.user.User"

\* the entry as a model object
UserOf(lastname) == [lastname |-> lastname]

\* __setitem__
setitem(s, key, value) ==
    [s EXCEPT !.root[key] = value, !.states[key] = "new", !.error = ""]

\* __delitem__: del self.root[key] raises KeyError for a key root lacks
delitem(s, key) ==
    IF s.root[key] = "" THEN [s EXCEPT !.error = "KeyError"]
    ELSE [s EXCEPT !.root[key] = "", !.states[key] = "deleted", !.error = ""]

\* from_retrieved_values: every key given is a retrieved object
from_retrieved_values(s, values) ==
    [s EXCEPT !.root = values,
              !.states = [k \in SecKeys |-> IF values[k] = "" THEN "none"
                                            ELSE "retrieved"],
              !.error = ""]

\* unpersisted_values / deleted_values
unpersisted_values(s) == {k \in SecKeys : s.states[k] = "new"}
deleted_values(s) == {k \in SecKeys : s.states[k] = "deleted"}

\* mark_persisted(keys): key by key, KeyError at the first key that _states
\* lacks or holds as retrieved; the keys before it stay marked
RECURSIVE mark_persisted(_, _, _)
mark_persisted(s, keys, i) ==
    IF i > Len(keys) THEN [s EXCEPT !.error = ""]
    ELSE IF s.states[keys[i]] \in {"none", "retrieved"}
    THEN [s EXCEPT !.error = "KeyError"]
    ELSE mark_persisted([s EXCEPT !.states[keys[i]] = "retrieved"], keys, i + 1)

\* str() of a bytes object inside an f-string: its repr
bytes_repr(b) == <<"b'">> \o b \o <<"'">>

\* unpersisted_serialized(compression): per new entry the class name, ":"
\* and the text of value.serialize(compression)
unpersisted_serialized(s, compression) ==
    LET new == unpersisted_values(s)
        ser_of(k) == serialize(UserOf(s.root[k]), 0, compression)
    IN  IF \E k \in new : ser_of(k).raised # ""
        THEN [raised |-> (CHOOSE e \in {ser_of(k).raised : k \in new} : e # ""),
              payloads |-> NoPayloads]
        ELSE [raised |-> "",
              payloads |-> [k \in SecKeys |->
                              IF k \in new
                              THEN <<UserFqn, ":">> \o bytes_repr(ser_of(k).bytes)
                              ELSE <<>>]]

\* payload.split(b":", maxsplit=1)
split_maxsplit_1(b) ==
    LET seps == Positions(b, ":")
    IN  IF seps = {} THEN <<b>>
        ELSE <<SubSeq(b, 1, Lowest(seps) - 1), SubSeq(b, Lowest(seps) + 1, Len(b))>>

\* from_serialized(payloads): the class named before the first ":"
\* deserializes the rest
entry_of(payload) ==
    LET parts == split_maxsplit_1(payload)
    IN  IF Len(parts) # 2 \/ parts[1] # <<UserFqn>> THEN Failed("ValueError")
        ELSE deserialize(parts[2], 0)
from_serialized(s, payloads) ==
    LET given == {k \in SecKeys : payloads[k] # <<>>}
    IN  IF \E k \in given : entry_of(payloads[k]).kind = "raised"
        THEN [s EXCEPT !.error = "ValueError"]
        ELSE from_retrieved_values(
                 s, [k \in SecKeys |-> IF k \in given
                                       THEN entry_of(payloads[k]).model.lastname
                                       ELSE ""])

\* a model with an empty secondary storage
SecInit ==
    /\ SessionInit
    /\ tpl = NoTemplate
    /\ run = <<>>
    /\ pcall = [c \in Clients |-> NoCall]
    /\ ser = NoSer
    /\ sec = NoSec
    /\ pool = NoPool
    /\ http = [c \in Clients |-> NoReply]
    /\ redelivered = {}
    /\ trans = NoTrans

secframe == <<store, progress, lock, cpc, cop, cmodel, cresp, dag, wmodel,
              cbSucc, cbFail, cbpc, nEvents, nDags, tpl, run, pcall, ser, pool, http, redelivered, trans>>
Called(s, op, keys) == [s EXCEPT !.op = op, !.keys = keys, !.tick = 1 - sec.tick]

\* secondary_storage[key] = user
SetItem ==
    /\ \E k \in SecKeys, v \in Lastnames :
          sec' = Called(setitem(sec, k, v), "setitem", <<k>>)
    /\ UNCHANGED secframe

\* del secondary_storage[key]
DelItem ==
    /\ \E k \in SecKeys : sec' = Called(delitem(sec, k), "delitem", <<k>>)
    /\ UNCHANGED secframe

\* secondary_storage[key].lastname = ...: the entry is changed in place
ChangeField ==
    /\ \E k \in SecKeys, v \in Lastnames :
          /\ sec.root[k] # ""
          /\ sec' = Called([sec EXCEPT !.root[k] = v, !.error = ""], "change", <<k>>)
    /\ UNCHANGED secframe

\* mark_persisted(keys)
MarkPersisted ==
    /\ \E keys \in SeqsOf(SecKeys, MaxMarked) :
          sec' = Called(mark_persisted(sec, keys, 1), "mark_persisted", keys)
    /\ UNCHANGED secframe

\* unpersisted_serialized(compression): what a store of the model writes
UnpersistedSerialized ==
    /\ \E compression \in BOOLEAN :
          LET r == unpersisted_serialized(sec, compression)
          IN  sec' = Called([sec EXCEPT !.error = r.raised,
                                        !.payloads = IF r.raised = "" THEN r.payloads
                                                     ELSE @],
                            "unpersisted_serialized", <<>>)
    /\ UNCHANGED secframe

\* from_serialized(payloads) of the payloads last written
FromSerialized ==
    /\ sec' = Called(from_serialized(sec, sec.payloads), "from_serialized", <<>>)
    /\ UNCHANGED secframe

SecNext ==
    \/ SetItem
    \/ DelItem
    \/ ChangeField
    \/ MarkPersisted
    \/ UnpersistedSerialized
    \/ FromSerialized

SecSpec == SecInit /\ [][SecNext]_vars

\* -------------------------------------------------------- invoker pool
\* The InvokersPool of a template prefix: one context manager object, shared
\* by the invocations of the prefix, over a Queue of pool_size invokers.  An
\* invoker is a number, 0 stands for None.
MaxQueue == MaxPoolSize + 1
PoolSizes == 1..MaxPoolSize

\* create_invoker_pool: pool_size invokers are put on the queue
create_invoker_pool(pool_size) ==
    [size |-> pool_size,
     queue |-> [i \in 1..pool_size |-> i],
     current |-> 0,
     inv |-> [t \in Invocations |-> NoInvocation]]

PoolInit ==
    /\ SessionInit
    /\ tpl = NoTemplate
    /\ run = <<>>
    /\ pcall = [c \in Clients |-> NoCall]
    /\ ser = NoSer
    /\ sec = NoSec
    /\ http = [c \in Clients |-> NoReply]
    /\ redelivered = {}
    /\ trans = NoTrans
    /\ \E pool_size \in PoolSizes : pool = create_invoker_pool(pool_size)

poolframe == <<store, progress, lock, cpc, cop, cmodel, cresp, dag, wmodel,
               cbSucc, cbFail, cbpc, nEvents, nDags, tpl, run, pcall, ser, sec, http, redelivered, trans>>

\* __enter__: if self._current_invoker is None
PoolEnter(t) ==
    /\ pool.inv[t].pc = "idle"
    /\ pool' = [pool EXCEPT !.inv[t].pc = IF pool.current = 0 THEN "get" ELSE "return"]
    /\ UNCHANGED poolframe

\* __enter__: self._queue.get(), which blocks while the queue is empty
PoolGet(t) ==
    /\ pool.inv[t].pc = "get"
    /\ pool.queue # <<>>
    /\ pool' = [pool EXCEPT !.queue = Tail(@), !.inv[t].got = Head(pool.queue),
                            !.inv[t].pc = "set"]
    /\ UNCHANGED poolframe

\* __enter__: self._current_invoker = the invoker got
PoolSetCurrent(t) ==
    /\ pool.inv[t].pc = "set"
    /\ pool' = [pool EXCEPT !.current = pool.inv[t].got, !.inv[t].got = 0,
                            !.inv[t].pc = "return"]
    /\ UNCHANGED poolframe

\* __enter__: return self._current_invoker; the body of the with statement
\* invokes with it
PoolReturn(t) ==
    /\ pool.inv[t].pc = "return"
    /\ pool' = [pool EXCEPT !.inv[t].holds = pool.current, !.inv[t].pc = "using"]
    /\ UNCHANGED poolframe

\* __exit__: if self._current_invoker is not None
PoolExit(t) ==
    /\ pool.inv[t].pc = "using"
    /\ pool' = [pool EXCEPT !.inv[t].holds = 0,
                            !.inv[t].pc = IF pool.current # 0 THEN "put" ELSE "idle"]
    /\ UNCHANGED poolframe

\* __exit__: self._queue.put(self._current_invoker)
PoolPut(t) ==
    /\ pool.inv[t].pc = "put"
    /\ Len(pool.queue) < MaxQueue
    /\ pool' = [pool EXCEPT !.queue = Append(@, pool.current), !.inv[t].pc = "clear"]
    /\ UNCHANGED poolframe

\* __exit__: self._current_invoker = None
PoolClear(t) ==
    /\ pool.inv[t].pc = "clear"
    /\ pool' = [pool EXCEPT !.current = 0, !.inv[t].pc = "idle"]
    /\ UNCHANGED poolframe

PoolNext ==
    \/ \E t \in Invocations : PoolEnter(t)
    \/ \E t \in Invocations : PoolGet(t)
    \/ \E t \in Invocations : PoolSetCurrent(t)
    \/ \E t \in Invocations : PoolReturn(t)
    \/ \E t \in Invocations : PoolExit(t)
    \/ \E t \in Invocations : PoolPut(t)
    \/ \E t \in Invocations : PoolClear(t)

PoolSpec == PoolInit /\ [][PoolNext]_vars

\* -------------------------------------------------------- start_session
\* The session before it exists: create_new_session makes it, and from then
\* on the session engine runs on it.
ModelKeyRegistry == {"qa"}
ModelKeys == {"qa", "unregistered"}

\* model_class(session_id=session_id) with its state machine in the initial
\* state
NewModel ==
    [state |-> InitialState, dialogue |-> <<>>,
     task_error |-> [null |-> TRUE, recs |-> <<>>], actor_input |-> ""]

\* a new session whose first element is recorded as said by the user
add_element_as_user(m, actor, actor_text) ==
    [m EXCEPT !.dialogue = Append(@, [actor |-> "user", actor_text |-> actor_text])]

\* GenieModel.add_dialogue_element
add_dialogue_element(m, actor, actor_text) ==
    [m EXCEPT !.dialogue = Append(@, [actor |-> actor, actor_text |-> actor_text])]

\* create_new_session: the model it stores
new_session_model ==
    LET initial_prompt == render_template(NewModel.state)
    IN  add_dialogue_element(NewModel, "assistant", initial_prompt)

\* create_new_session: the AIResponse it returns
new_session_response(m) ==
    [kind |-> "started", session_id |-> SessionId,
     response |-> current_response_text(m),
     next_actions |-> unique_events(m.state)]

StartInit ==
    /\ store = NoModel
    /\ progress = NoProgress
    /\ lock = "free"
    /\ cpc = [c \in Clients |-> "idle"]
    /\ cop = [c \in Clients |-> NoOp]
    /\ cmodel = [c \in Clients |-> NoModel]
    /\ cresp = [c \in Clients |-> NoResp]
    /\ dag = [d \in DagIds |-> NoDag]
    /\ wmodel = [d \in DagIds |-> NoModel]
    /\ cbSucc = 0
    /\ cbFail = 0
    /\ cbpc = "idle"
    /\ nEvents = 0
    /\ nDags = 0
    /\ tpl = NoTemplate
    /\ run = <<>>
    /\ pcall = [c \in Clients |-> NoCall]
    /\ LibInit

\* the object store holds a model under the session id
Created == store # NoModel

\* create_new_session(model_key): the registry lookup raises KeyError for a
\* key that is not registered; else the model is made under a new uuid4,
\* the initial template rendered and recorded, the model stored (without the
\* lock) and the response returned
CreateNewSession(c) ==
    /\ ~Created
    /\ cpc[c] = "idle"
    /\ \E model_key \in ModelKeys :
          /\ cop' = [cop EXCEPT ![c] = [op |-> "start", event |-> "", arg |-> model_key]]
          /\ IF model_key \notin ModelKeyRegistry
             THEN /\ cresp' = [cresp EXCEPT ![c] = [kind |-> "raised", error |-> "KeyError"]]
                  /\ UNCHANGED store
             ELSE /\ store' = new_session_model
                  /\ cresp' = [cresp EXCEPT ![c] = new_session_response(new_session_model)]
    /\ UNCHANGED <<progress, lock, cpc, cmodel, dag, wmodel, cbSucc, cbFail, cbpc,
                   nEvents, nDags>>
    /\ UNCHANGED dagvars

StartNext ==
    \/ \E c \in Clients : CreateNewSession(c)
    \/ \E c \in Clients : Created /\ ProcessEventAcquire(c)
    \/ \E c \in Clients : Created /\ HandlePoll(c)
    \/ \E c \in Clients : Created /\ HandleEventRejected(c)
    \/ \E c \in Clients : Created /\ HandleEvent(c)
    \/ \E c \in Clients : Created /\ GetTaskStateCheck(c)
    \/ \E c \in Clients : Created /\ GetTaskStateAcquire(c)
    \/ \E c \in Clients : Created /\ GetTaskStateRelease(c)
    \/ \E d \in DagIds : Created /\ TaskSucceeds(d)
    \/ \E d \in DagIds : Created /\ TaskFails(d)
    \/ Created /\ OnSuccessAcquire
    \/ Created /\ OnSuccessRun
    \/ Created /\ OnFailureAcquire
    \/ Created /\ OnFailureRun
    \/ \E d \in DagIds : Created /\ TriggerAcquire(d)
    \/ \E d \in DagIds : Created /\ TriggerDeleteProgress(d)
    \/ \E d \in DagIds : Created /\ TriggerSend(d)
    \/ \E d \in DagIds : Created /\ TriggerRaise(d)
    \/ \E d \in DagIds : Created /\ ErrorHandlerAcquire(d)
    \/ \E d \in DagIds : Created /\ ErrorHandlerRun(d)
    \/ \E d \in DagIds : Created /\ ErrorHandlerRaise(d)

StartSpec == StartInit /\ [][StartNext]_vars

\* ------------------------------------------------------------ HTTP layer
\* GenieFlowRouterBuilder.start_event: the route of process_event.  The
\* reply of the route is a status code with, for 200, the AIResponse as its
\* body and, for an HTTPException, its detail.
HTTP_200_OK == 200
HTTP_500_INTERNAL_SERVER_ERROR == 500

\* AIResponse.error of a response of process_event: the JSON of the rejected
\* transition or the recorded task errors, None otherwise
error_is_none(result) == result.kind \notin {"rejected", "error"}

\* a route that returns every result as it is
start_event_returns(result, debug) ==
    [of |-> result, status_code |-> HTTP_200_OK, detail |-> ""]

\* start_event, given the result of process_event
start_event(result, debug) ==
    IF ~error_is_none(result)
    THEN [of |-> result, status_code |-> HTTP_500_INTERNAL_SERVER_ERROR,
          detail |-> IF debug THEN result.kind ELSE "Genie Flow Internal Error"]
    ELSE [of |-> result, status_code |-> HTTP_200_OK, detail |-> ""]

\* start_event: process_event has returned and the route replies
StartEventReply(c) ==
    /\ cpc[c] = "idle"
    /\ cop[c].op = "event"
    /\ cresp[c] # NoResp
    /\ http[c].of # cresp[c]
    /\ \E debug \in BOOLEAN : http' = [http EXCEPT ![c] = start_event(cresp[c], debug)]
    /\ UNCHANGED <<store, progress, lock, cpc, cop, cmodel, cresp, dag, wmodel,
                   cbSucc, cbFail, cbpc, nEvents, nDags, tpl, run, pcall, ser, sec, pool,
                   redelivered, trans>>

\* the API process alone: the routes and the SessionManager calls behind
\* them; no worker takes a task off the queue
HttpNext ==
    \/ \E c \in Clients : StartEventReply(c)
    \/ \E c \in Clients : ProcessEventAcquire(c)
    \/ \E c \in Clients : HandlePoll(c)
    \/ \E c \in Clients : HandleEventRejected(c)
    \/ \E c \in Clients : HandleEvent(c)
    \/ \E c \in Clients : GetTaskStateCheck(c)
    \/ \E c \in Clients : GetTaskStateAcquire(c)
    \/ \E c \in Clients : GetTaskStateRelease(c)

HttpSpec == Init /\ [][HttpNext]_vars

\* ------------------------------------------------------------ redelivery
\* Celery hands a task out at least once: the message of a final task that
\* has run may be handed out again, and the errback of a DAG is called for
\* every failing member of a group.  The second run is the run of the same
\* task body with the same arguments.

\* the trigger_ai_event message of a DAG whose trigger has sent its event is
\* handed out again, with the result it carries: the lock is acquired and
\* the model loaded
TriggerRedelivered(d) ==
    /\ dag[d].st = "done"
    /\ dag[d].by = "trigger"
    /\ d \notin redelivered
    /\ Cardinality(redelivered) < MaxRedelivered
    /\ LockAcquire
    /\ dag' = [dag EXCEPT ![d].st = "tr_locked"]
    /\ wmodel' = [wmodel EXCEPT ![d] = retrieve_model]
    /\ redelivered' = redelivered \cup {d}
    /\ UNCHANGED <<store, progress, cpc, cop, cmodel, cresp,
                   cbSucc, cbFail, cbpc, nEvents, nDags, tpl, run, pcall,
                   ser, sec, pool, http, trans>>

\* error_handler of a DAG whose error handler has sent its event is called
\* once more, for a further failing member or a message handed out again
ErrorHandlerRedelivered(d) ==
    /\ dag[d].st = "done"
    /\ dag[d].by = "error_handler"
    /\ d \notin redelivered
    /\ Cardinality(redelivered) < MaxRedelivered
    /\ LockAcquire
    /\ dag' = [dag EXCEPT ![d].st = "eh_locked"]
    /\ wmodel' = [wmodel EXCEPT ![d] = retrieve_model]
    /\ redelivered' = redelivered \cup {d}
    /\ UNCHANGED <<store, progress, cpc, cop, cmodel, cresp,
                   cbSucc, cbFail, cbpc, nEvents, nDags, tpl, run, pcall,
                   ser, sec, pool, http, trans>>

\* the session engine under at-least-once delivery, with one client calling
Callers == {"c1"}
RedeliveryNext ==
    \/ \E c \in Callers : ProcessEventAcquire(c)
    \/ \E c \in Callers : HandlePoll(c)
    \/ \E c \in Callers : HandleEventRejected(c)
    \/ \E c \in Callers : HandleEvent(c)
    \/ \E c \in Callers : GetTaskStateCheck(c)
    \/ \E c \in Callers : GetTaskStateAcquire(c)
    \/ \E c \in Callers : GetTaskStateRelease(c)
    \/ \E d \in DagIds : TaskSucceeds(d)
    \/ \E d \in DagIds : TaskFails(d)
    \/ OnSuccessAcquire
    \/ OnSuccessRun
    \/ OnFailureAcquire
    \/ OnFailureRun
    \/ \E d \in DagIds : TriggerAcquire(d)
    \/ \E d \in DagIds : TriggerDeleteProgress(d)
    \/ \E d \in DagIds : TriggerSend(d)
    \/ \E d \in DagIds : TriggerRaise(d)
    \/ \E d \in DagIds : ErrorHandlerAcquire(d)
    \/ \E d \in DagIds : ErrorHandlerRun(d)
    \/ \E d \in DagIds : ErrorHandlerRaise(d)
    \/ \E d \in DagIds : TriggerRedelivered(d)
    \/ \E d \in DagIds : ErrorHandlerRedelivered(d)

RedeliverySpec == Init /\ [][RedeliveryNext]_vars

\* ------------------------------------------------------ transition hooks
\* The hooks of TransitionManager on one transition of the flow, for an
\* event whose arguments are a tuple that may be empty.
EventArgs == {<<>>, <<"a">>, <<"">>}
TransitionSet == {Transitions[i] : i \in DOMAIN Transitions}

\* before_transition: event_data.args[0], None when there is no argument
actor_input_of(args) == IF Len(args) > 0 THEN PyStr(args[1]) ELSE PyNone

\* before_transition: the persistence of the transition type is set on the
\* model, and the actor input
before_transition_hook(tr, t) ==
    [tr EXCEPT !.pc = "before",
               !.dialogue_persistence =
                    DIALOGUE_PERSISTENCE_MAP(determine_transition_type(t)),
               !.actor_input = actor_input_of(tr.args)]

\* record_dialogue_element with the actor input as the text
record_actor_input(tr) ==
    [tr EXCEPT !.dialogue =
        Append(@, [actor |-> element_actor(tr.dialogue_persistence),
                   actor_text |-> tr.actor_input.str])]

\* after_transition: nothing for NONE; for RENDERED the rendering of the
\* target becomes the actor input; for RAW the arguments of the log call,
\* len(actor_input) among them, are evaluated, which raises TypeError for
\* None; then the element is recorded
after_transition_hook(tr) ==
    IF tr.dialogue_persistence = "NONE" THEN [tr EXCEPT !.pc = "done"]
    ELSE IF tr.dialogue_persistence = "RENDERED"
    THEN record_actor_input([tr EXCEPT !.pc = "done",
                                       !.actor_input = PyStr(render_template(tr.target))])
    ELSE IF tr.actor_input.none
    THEN [tr EXCEPT !.pc = "done", !.raised = "TypeError"]
    ELSE record_actor_input([tr EXCEPT !.pc = "done"])

\* a transition of the flow is about to be made, on a model with a dialogue,
\* by an event with or without an argument
TransInit ==
    /\ SessionInit
    /\ tpl = NoTemplate
    /\ run = <<>>
    /\ pcall = [c \in Clients |-> NoCall]
    /\ ser = NoSer
    /\ sec = NoSec
    /\ pool = NoPool
    /\ http = [c \in Clients |-> NoReply]
    /\ redelivered = {}
    /\ \E t \in TransitionSet, args \in EventArgs, d \in Dialogues :
          trans = [NoTrans EXCEPT !.pc = "ready", !.source = t.source,
                                  !.target = t.target, !.args = args,
                                  !.before = d, !.dialogue = d]

transframe == <<store, progress, lock, cpc, cop, cmodel, cresp, dag, wmodel,
                cbSucc, cbFail, cbpc, nEvents, nDags, tpl, run, pcall, ser, sec,
                pool, http, redelivered>>

\* TransitionManager.before_transition
BeforeTransition ==
    /\ trans.pc = "ready"
    /\ \E t \in TransitionSet :
          /\ t.source = trans.source
          /\ t.target = trans.target
          /\ trans' = before_transition_hook(trans, t)
    /\ UNCHANGED transframe

\* TransitionManager.after_transition
AfterTransition ==
    /\ trans.pc = "before"
    /\ trans' = after_transition_hook(trans)
    /\ UNCHANGED transframe

TransNext ==
    \/ BeforeTransition
    \/ AfterTransition

TransSpec == TransInit /\ [][TransNext]_vars

\* ------------------------------------------------------------ properties
IsPrefix(a, b) == Len(a) <= Len(b) /\ SubSeq(b, 1, Len(a)) = a

\* the actors inside a locked section
ClientHolders == {c \in Clients : cpc[c] \in {"pe_locked", "ts_locked"}}
WorkerHolders == {d \in DagIds : dag[d].st \in {"tr_locked", "tr_send", "tr_raise", "eh_locked"}}
NrHolders ==
    Cardinality(ClientHolders) + Cardinality(WorkerHolders)
        + (IF cbpc = "idle" THEN 0 ELSE 1)

\* a DAG is in flight from its enqueue until trigger_ai_event or error_handler
\* has left its locked section
InFlight(d) == dag[d].st \notin {"idle", "done", "error"}

\* client c leaves process_event in this step
Returns(c) == cpc[c] = "pe_locked" /\ cpc'[c] = "idle"

\* client c leaves process_event having dispatched an allowed event
Dispatches(c) ==
    /\ Returns(c)
    /\ cop[c].event # "poll"
    /\ ~TransitionNotAllowed(store.state, cop[c].event, cop[c].arg)

\* C1: at any time at most one actor (process_event, trigger_ai_event,
\* error_handler, a get_model read, a progress callback) is inside the
\* session's locked section, and the lock key is held exactly while one is;
\* an acquirer therefore enters only after the holder has released.
C1_MutualExclusion ==
    /\ NrHolders <= 1
    /\ lock = "held" <=> NrHolders = 1

\* a process_event call holds the lock while a get_task_state call and a
\* trigger_ai_event task wait for it
C1_Witness ==
    /\ lock = "held"
    /\ cpc["c1"] = "pe_locked"
    /\ cpc["c2"] = "ts_wait"
    /\ \E d \in DagIds : dag[d].st = "trigger"

\* what process_event leaves in the store, given what it found there
ProcessEventResult(m, ev, arg) ==
    IF ev = "poll" \/ TransitionNotAllowed(m.state, ev, arg)
    THEN m
    ELSE SendModel(m, ev, arg)

\* C2: process_event calls serialize: the model a call works on is the
\* persisted one for as long as the call holds it, and what the call persists
\* is its transition applied to the persisted model, so the persisted
\* dialogue only grows and no append of an earlier call is lost.
C2_Serialized ==
    [][\A c \in Clients :
          cpc[c] = "pe_locked" =>
              /\ cmodel[c] = store
              /\ Returns(c) =>
                    /\ store' = ProcessEventResult(store, cop[c].event, cop[c].arg)
                    /\ IsPrefix(store.dialogue, store'.dialogue)]_vars

\* both clients have dispatched an event that appended to the dialogue and
\* the persisted dialogue holds both appends in order
C2_Witness ==
    /\ cpc = [c \in Clients |-> "idle"]
    /\ cop["c1"] = [op |-> "event", event |-> "user_input", arg |-> "a"]
    /\ cop["c2"] = [op |-> "event", event |-> "ai_extraction", arg |-> ""]
    /\ cresp["c1"].kind = "running"
    /\ cresp["c2"].kind = "running"
    /\ Len(store.dialogue) = 3
    /\ store.dialogue[2] = [actor |-> "user", actor_text |-> "a"]
    /\ store.dialogue[3] = [actor |-> "assistant", actor_text |-> "rendered need_to_retry"]

\* C3: while a progress record exists for the session no step enqueues a
\* DAG (at most one DAG in flight per session).
C3_NoSecondDag == [][nDags' > nDags => ~progress.exists]_vars

\* C4: get_task_state returns ready=true only when no DAG of the session is
\* in flight.
C4_ReadyOnlyWhenIdle ==
    [][\A c \in Clients :
          (cpc[c] = "ts_locked" /\ cpc'[c] = "idle") =>
              \A d \in DagIds : ~InFlight(d)]_vars

C6_AfterEventApplied ==
    \A d \in DagIds :
        dag[d].st \in {"done", "error"} => dag[d].by \in {"trigger", "error_handler"}

\* C7: when error_handler leaves its locked section the fallback transition
\* has been taken and task_error holds the record of the failed task.
C7_ErrorRecorded ==
    [][\A d \in DagIds :
          (dag[d].st = "eh_locked" /\ dag'[d].st # "eh_locked") =>
              /\ ~store'.task_error.null
              /\ \E i \in 1..Len(store'.task_error.recs) :
                    store'.task_error.recs[i] =
                        [session_id |-> SessionId, task_id |-> d,
                         exception |-> "exception"]
              /\ store'.state # store.state]_vars

\* C8: a process_event call whose event has no enabled transition returns
\* the error naming the current state (id and name), the events possible
\* from it and the received event, and leaves the model, the progress record
\* and the DAGs as they were.
C8_Rejected ==
    [][\A c \in Clients :
          (/\ Returns(c)
           /\ cop[c].event # "poll"
           /\ TransitionNotAllowed(store.state, cop[c].event, cop[c].arg)) =>
              /\ cresp'[c] =
                    [kind |-> "rejected",
                     current_state |-> [id |-> store.state,
                                        name |-> StateName(store.state)],
                     possible_events |-> unique_events(store.state),
                     received_event |-> cop[c].event]
              /\ store' = store
              /\ progress' = progress
              /\ dag' = dag
              /\ nDags' = nDags]_vars

\* user_input was rejected in ai_extracts_name, where only ai_extraction is
\* possible, while the DAG of that state was running
C8_Witness ==
    \E c \in Clients :
        /\ cpc[c] = "idle"
        /\ cresp[c] = [kind |-> "rejected",
                       current_state |-> [id |-> "ai_extracts_name",
                                          name |-> "Ai extracts name"],
                       possible_events |-> <<"ai_extraction">>,
                       received_event |-> "user_input"]
        /\ store.state = "ai_extracts_name"
        /\ progress.exists

\* C9: a poll returns, in this priority: with a progress record,
\* next_actions [poll] and (todo, done); else with a task_error, the error and
\* the outgoing events of the current state; else the text of the last
\* dialogue element and the outgoing events of the current state.
C9_PollShapes ==
    [][\A c \in Clients :
          (Returns(c) /\ cop[c].event = "poll") =>
              cresp'[c] =
                  IF progress.exists
                  THEN [kind |-> "progress", next_actions |-> <<"poll">>,
                        total_number_of_subtasks |-> progress.todo,
                        number_of_subtasks_executed |-> progress.done]
                  ELSE IF ~store.task_error.null
                  THEN [kind |-> "error", error |-> store.task_error.recs,
                        next_actions |-> unique_events(store.state)]
                  ELSE [kind |-> "response",
                        response |-> IF store.dialogue = <<>> THEN ""
                                     ELSE store.dialogue[Len(store.dialogue)].actor_text,
                        next_actions |-> unique_events(store.state)]]_vars

\* one client polled while a progress record and a task_error both existed
\* and got the progress, the other polled when the record was gone and got
\* the error
C9_Witness ==
    /\ cop["c1"].event = "poll" /\ cpc["c1"] = "idle"
    /\ cop["c2"].event = "poll" /\ cpc["c2"] = "idle"
    /\ cresp["c1"].kind = "progress"
    /\ cresp["c2"].kind = "error"
    /\ ~store.task_error.null
    /\ ~progress.exists

\* process_event dispatches to an INVOKER target: the record exists with
\* total N and done 0 and the response is [poll]
DispatchToInvoker(c) ==
    /\ progress' = [exists |-> TRUE, task_id |-> nDags',
                    todo |-> NrTasks(get_template_for_state(store'.state)),
                    done |-> 0, tombstone |-> "f"]
    /\ cresp'[c] = [kind |-> "running", next_actions |-> <<"poll">>]

\* the response carrying the last dialogue text and the outgoing events
TextResponse(m) ==
    [kind |-> "response",
     response |-> m.dialogue[Len(m.dialogue)].actor_text,
     next_actions |-> unique_events(m.state)]

C11_UserOnlyExchange ==
    [][\A c \in Clients :
          (/\ Dispatches(c)
           /\ nDags = 0
           /\ determine_type(store.state) = "USER"
           /\ determine_type(store'.state) = "USER") =>
              /\ ~progress'.exists
              /\ store'.dialogue =
                    store.dialogue \o
                        <<[actor |-> "user", actor_text |-> cop[c].arg],
                          [actor |-> "assistant",
                           actor_text |-> render_template(store'.state)]>>
              /\ cresp'[c] = [kind |-> "response",
                              response |-> render_template(store'.state),
                              next_actions |-> unique_events(store'.state)]]_vars


\* C12: the progress record of a DAG is deleted only when its done count has
\* reached its total with the tombstone set, or by the failure path of the
\* DAG (on_failure, error_handler).
C12_DeletedWhenComplete ==
    [][(progress.exists /\ ~progress'.exists) =>
          \/ progress.done >= progress.todo /\ progress.tombstone = "t"
          \/ cbpc = "on_failure"
          \/ \E d \in DagIds :
                \/ dag[d].st \in {"failed", "eh_locked", "error"}
                \/ dag[d].by = "error_handler"]_vars

\* caller c takes the step of its call that leaves position pc
Passes(c, pc) == pcall[c].pc = pc /\ pcall'[c].pc # pc
\* caller c enters the operation op
Enters(c, op) == pcall[c].pc = "idle" /\ pcall'[c] # pcall[c] /\ pcall'[c].op = op

\* C13: progress_update_done adds nr_done to done; the call deletes the
\* record exactly when the new done it got is at least the todo it reads and
\* the tombstone it reads is set; with the tombstone unset the record is
\* kept, however large done is; and nothing but such a call deletes a record.
C13_UpdateDone ==
    [][\A c \in Clients :
          /\ (Passes(c, "done_incr") /\ progress.exists /\ progress.done # Nil) =>
                /\ progress' = [progress EXCEPT !.done = progress.done + 1]
                /\ pcall'[c].new_done = progress.done + 1
          /\ (Passes(c, "done_todo") /\ progress.exists /\ progress.todo # Nil) =>
                /\ progress' = progress
                /\ pcall'[c].pc = "done_tombstone" <=> pcall[c].new_done >= progress.todo
                /\ pcall'[c].pc # "done_tombstone" =>
                      pcall'[c].pc = "idle" /\ pcall'[c].out.kind = "returned"
          /\ Passes(c, "done_tombstone") =>
                /\ progress' = progress
                /\ pcall'[c].pc = "done_delete" <=>
                      (progress.exists /\ progress.tombstone = "t")
                /\ pcall'[c].pc # "done_delete" => pcall'[c].pc = "idle"
          /\ Passes(c, "done_delete") => ~progress'.exists
          /\ (progress.exists /\ ~progress'.exists) =>
                \E d \in Clients : Passes(d, "done_delete")]_vars

\* one caller alone started a record with todo = MaxTodo, set the tombstone
\* before its last progress_update_done, and that call, returning 0 tasks
\* left, found done = todo and deleted the record
C13_Witness ==
    /\ ~progress.exists
    /\ pcall["c2"] = NoCall
    /\ pcall["c1"].pc = "idle"
    /\ pcall["c1"].op = "progress_update_done"
    /\ pcall["c1"].new_done = MaxTodo
    /\ pcall["c1"].out = Returned(<<0>>, FALSE)

\* C15: progress_start called on a session without a progress record writes
\* the record {todo n, done 0, tombstone unset}, after which progress_exists
\* is true and progress_status is (n, 0); called on a session that has a
\* record it raises and leaves the record as it is.
C15_ProgressStart ==
    [][\A c \in Clients :
          /\ Enters(c, "progress_start") =>
                /\ progress' = progress
                /\ progress.exists =>
                      /\ pcall'[c].pc = "idle"
                      /\ pcall'[c].out = Raised("ValueError")
                /\ ~progress.exists => pcall'[c].pc = "start_hset"
          /\ Passes(c, "start_hset") =>
                /\ progress' = [exists |-> TRUE, task_id |-> TaskIdOf(c),
                                todo |-> pcall[c].n, done |-> 0, tombstone |-> "f"]
                /\ progress_exists'
                /\ progress_status' = <<pcall[c].n, 0>>
                /\ pcall'[c].out.kind = "returned"]_vars

\* a progress_start of c2 has been refused on the record c1 started and
\* updated, which is still as c1 left it
C15_Witness ==
    /\ pcall["c2"].op = "progress_start"
    /\ pcall["c2"].out = Raised("ValueError")
    /\ pcall["c1"].op = "progress_update_done"
    /\ pcall["c1"].pc = "idle"
    /\ progress = [exists |-> TRUE, task_id |-> 1, todo |-> MaxTodo, done |-> 1,
                   tombstone |-> "f"]

C17_PerInvocation ==
    [][\A c \in Clients :
          /\ Enters(c, "progress_exists") =>
                (pcall'[c].out.flag <=>
                    (progress.exists /\ progress.task_id = TaskIdOf(c)))
          /\ ((Passes(c, "done_incr") \/ Passes(c, "todo_incr"))
                /\ progress.exists /\ progress.task_id # TaskIdOf(c)) =>
                /\ progress'.todo = progress.todo
                /\ progress'.done = progress.done]_vars


\* the number of tasks of the compiled graph that have run
Executed == Cardinality({i \in DOMAIN run : run[i].st = "done"})
AllExecuted == Len(run) > 0 /\ \A i \in DOMAIN run : run[i].st = "done"

\* the tasks compiled for the items before item e: sep is 1 in a list (the
\* chained_template after each item) and 0 in a dict
RECURSIVE TasksBefore(_, _, _)
TasksBefore(items, e, sep) ==
    IF e <= 1 THEN 0
    ELSE TasksBefore(items, e - 1, sep) + count_tasks(items[e - 1]) + sep

\* what template t returns, its tasks numbered from base + 1, by its
\* structure alone: a list returns what its last item returns, a dict the
\* JSON text of the dict of what its items return
RECURSIVE ValueOf(_, _)
ValueOf(t, base) ==
    CASE t.k \in {"str", "task", "map"} ->
            IF t.name = "j" THEN <<"json", "str", "j", ToString(base + 1)>>
            ELSE <<"str", t.name, ToString(base + 1)>>
      [] t.k = "list" ->
            ValueOf(t.items[Len(t.items)], base + TasksBefore(t.items, Len(t.items), 1))
      [] t.k = "dict" ->
            <<"json", "{">> \o
            LET RECURSIVE Pairs(_)
                Pairs(m) ==
                    IF m > Len(t.keys) THEN <<>>
                    ELSE LET v == ValueOf(t.items[m], base + TasksBefore(t.items, m, 0))
                         IN  <<t.keys[m], ":">>
                                 \o (IF Head(v) = "json" THEN Tail(v) ELSE v)
                                 \o <<";">> \o Pairs(m + 1)
            IN  Pairs(1) \o <<"}">>

\* C18: the subtask count N of a template is 1 per leaf or task reference,
\* n - 1 per list of n items, 1 per dict and 1 per map-over, each plus the
\* counts of the children, plus 1 for trigger_ai_event: a leaf gives 2, a
\* dict of two leaves 4; and N is the number of tasks of the compiled graph,
\* all of which have run when the trigger has.
C18_SubtaskCount ==
    /\ nr_tasks(Leaf("a")) = 2
    /\ nr_tasks(TaskRef("a")) = 2
    /\ nr_tasks(MapOver("a")) = 2
    /\ nr_tasks(DictOf(<<"k1", "k2">>, <<Leaf("a"), Leaf("a")>>)) = 4
    /\ tpl.k = "list" =>
          nr_tasks(tpl) = TasksBefore(tpl.items, Len(tpl.items) + 1, 0)
                              + (Len(tpl.items) - 1) + 1
    /\ tpl.k = "dict" =>
          nr_tasks(tpl) = TasksBefore(tpl.items, Len(tpl.items) + 1, 0) + 1 + 1
    /\ tpl # NoTemplate =>
          /\ Executed <= nr_tasks(tpl)
          /\ run[Len(run)].st = "done" => Executed = nr_tasks(tpl)
          /\ AllExecuted => Executed = nr_tasks(tpl)

\* a dict of a two-item list and a leaf has run to its end: 3 + 1 + 1 + 1
\* tasks
C18_Witness ==
    /\ tpl = DictOf(<<"k1", "k2">>, <<ListOf(<<Leaf("a"), Leaf("j")>>), Leaf("a")>>)
    /\ AllExecuted
    /\ Executed = 6

\* C19: the combine step of a dict runs only when every member has
\* returned; it returns the JSON text of the dict that maps each key, in the
\* declared order, to what that key's own template returned (parsed if it is
\* JSON), whatever the order in which the members returned; and the task
\* after it, chained_template or trigger_ai_event, receives that text.
C19_ParallelJoin ==
    /\ \A i \in DOMAIN run :
          (run[i].kind = "combine" /\ run[i].st = "done") =>
              /\ \A m \in 1..Len(run[i].members) : run[run[i].members[m]].st = "done"
              /\ Len(run[i].in_results) = Len(run[i].keys)
              /\ \A m \in 1..Len(run[i].members) :
                    run[i].in_results[m] = run[run[i].members[m]].out_res
              /\ \A j \in DOMAIN run :
                    (run[j].after = i /\ run[j].st = "done") =>
                        run[j].in_res = run[i].out_res
    /\ (tpl.k = "dict" /\ run[Len(run) - 1].st = "done") =>
          /\ run[Len(run) - 1].kind = "combine"
          /\ run[Len(run) - 1].out_res = ValueOf(tpl, 0)
          /\ \A m \in 1..Len(tpl.keys) :
                LET last == TasksBefore(tpl.items, m + 1, 0)
                IN  /\ run[last].st = "done"
                    /\ run[last].out_res = ValueOf(tpl.items[m], TasksBefore(tpl.items, m, 0))
    /\ (tpl.k = "dict" /\ run[Len(run)].st = "done") =>
          run[Len(run)].in_res = ValueOf(tpl, 0)

\* the dict {k2: [a, j], k1: j} has been joined: the keys in their declared
\* order, k2 with the parsed result of its list's last item and k1 with the
\* parsed result of its leaf, and the trigger has received the joined text
C19_Witness ==
    /\ tpl = DictOf(<<"k2", "k1">>, <<ListOf(<<Leaf("a"), Leaf("j")>>), Leaf("j")>>)
    /\ AllExecuted
    /\ run[5].out_res = <<"json", "{", "k2", ":", "str", "j", "3", ";",
                          "k1", ":", "str", "j", "4", ";", "}">>
    /\ run[6].in_res = run[5].out_res

\* C20: in a list every item after the first starts only when the item
\* before it has returned, and with render data that is the frozen render
\* data plus previous_result, the result of the item immediately before, and
\* parsed_previous_result, that result parsed; trigger_ai_event receives what
\* the last item returned.
C20_SequenceData ==
    /\ \A i \in DOMAIN run :
          (run[i].st = "done" /\ run[i].after # 0) => run[run[i].after].st = "done"
    /\ \A i \in DOMAIN run :
          (run[i].kind = "chained" /\ run[i].st = "done") =>
              /\ run[i].in_res = run[i - 1].out_res
              /\ run[i].out_rd.previous_result = run[i - 1].out_res
              /\ \A j \in DOMAIN run :
                    (run[j].after = i /\ run[j].st = "done") =>
                        run[j].in_rd = run[i].out_rd
    /\ tpl.k = "list" =>
          /\ \A e \in 2..Len(tpl.items) :
                LET link == TasksBefore(tpl.items, e, 1)
                    prev == ValueOf(tpl.items[e - 1], TasksBefore(tpl.items, e - 1, 1))
                IN  \A j \in DOMAIN run :
                       (j > link /\ run[j].after = link /\ run[j].st = "done") =>
                           /\ run[link - 1].st = "done"
                           /\ run[j].in_rd =
                                 [previous_result |-> prev,
                                  parsed_previous_result |->
                                     IF Head(prev) = "json" THEN Tail(prev) ELSE prev]
          /\ run[Len(run)].st = "done" => run[Len(run)].in_res = ValueOf(tpl, 0)

\* the list [a, j, a] has run: the third item saw the JSON text of the
\* second and its parsed form, and the trigger got the result of the third
C20_Witness ==
    /\ tpl = ListOf(<<Leaf("a"), Leaf("j"), Leaf("a")>>)
    /\ AllExecuted
    /\ run[5].in_rd = [previous_result |-> <<"json", "str", "j", "3">>,
                       parsed_previous_result |-> <<"str", "j", "3">>]
    /\ run[3].in_rd.previous_result = <<"str", "a", "1">>
    /\ run[6].in_res = <<"str", "a", "5">>


\* C14: while a DAG is in flight the done count of its progress record never
\* exceeds the total: map_task has raised the total by its fan-out, so that
\* the completions of the expanded invocations and their combine step stay
\* within it.
C14_DoneWithinTotal ==
    \A d \in DagIds :
        (InFlight(d) /\ progress.exists /\ progress.task_id = d) =>
            progress.done <= progress.todo

\* C21: a model that was serialized and whose bytes were deserialized into
\* a class of the same schema version comes back as it was, with the same
\* session id and the same dialogue elements in the same order, whether
\* compression is on or off and whether or not a text of the model holds the
\* separator ":"; this for serialize / deserialize of the model and for
\* store_model / get_model of the manager.
C21_RoundTrip ==
    (ser.pc = "done" /\ ser.version = ser.cls_version /\ ser.appended = <<>>
                    /\ ser.new_actor = "")
        => ser.out = Loaded(ser.m)

\* C22: deserializing bytes whose schema-version prefix differs from the
\* schema version of the target class raises ValueError and yields no
\* model, with compression on and off, by deserialize of the model and by
\* get_model of the manager.
C22_SchemaMismatch ==
    (/\ ser.pc = "done"
     /\ ser.op \in {"deserialize", "get_model"}
     /\ ser.version # ser.cls_version)
        => ser.out = Failed("ValueError")
\* a compressed model with a dialogue holding ":" was stored by a class of
\* one version and deserialize of a class of another version has raised
C22_Witness ==
    /\ ser.pc = "done"
    /\ ser.op = "deserialize"
    /\ ser.compression
    /\ ser.version # ser.cls_version
    /\ \E i \in DOMAIN ser.m.dialogue : ser.m.dialogue[i].actor_text = ":"
    /\ ser.out = Failed("ValueError")

\* the model given to store_model with what the locked contexts since then
\* appended to its dialogue and set its actor to
ChangedModel ==
    [ser.m EXCEPT !.dialogue = @ \o ser.appended,
                  !.actor = IF ser.new_actor = "" THEN @ ELSE ser.new_actor]

SecCall(op) == sec'.tick # sec.tick /\ sec'.op = op

\* C24: what is serialized for writing when the model is stored are the
\* entries that are new since retrieval, all of them and no others: the call
\* returns, with a payload for a key exactly when the key is new.  Changing
\* a field of an entry in place leaves the state of its key as it was, so a
\* retrieved entry changed in place is not written; a deleted entry is among
\* the deleted values and not among the written ones; mark_persisted of a
\* key that is already retrieved raises KeyError and leaves the key
\* retrieved.
C24_OnlyNewWritten ==
    [][/\ SecCall("unpersisted_serialized") =>
            /\ sec'.error = ""
            /\ \A k \in SecKeys : sec'.payloads[k] # <<>> <=> sec.states[k] = "new"
       /\ SecCall("change") => sec'.states = sec.states
       /\ (SecCall("delitem") /\ sec'.error = "") =>
            /\ sec'.keys[1] \in deleted_values(sec')
            /\ sec'.keys[1] \notin unpersisted_values(sec')
       /\ (SecCall("mark_persisted") /\ sec.states[sec'.keys[1]] = "retrieved") =>
            /\ sec'.error = "KeyError"
            /\ sec'.states = sec.states]_vars

\* C25: start_session with a registered key stores, under a session id that
\* had no model, a model in the initial state of the flow whose dialogue is
\* the one assistant element with the rendering of the initial template; it
\* inserts no progress record and enqueues no DAG; the response carries the
\* session id, that rendering as its text and the events leaving the initial
\* state as next_actions.  With a key that is not registered it raises and
\* stores nothing.
C25_StartSession ==
    [][\A c \in Clients :
          (cop'[c].op = "start" /\ cresp'[c] # cresp[c]) =>
              /\ store = NoModel
              /\ progress' = NoProgress /\ ~progress'.exists
              /\ dag' = [d \in DagIds |-> NoDag] /\ nDags' = 0
              /\ lock' = lock
              /\ IF cop'[c].arg \in ModelKeyRegistry
                 THEN /\ store'.state = InitialState
                      /\ store'.dialogue =
                            <<[actor |-> "assistant",
                               actor_text |-> render_template(InitialState)]>>
                      /\ cresp'[c] = [kind |-> "started", session_id |-> SessionId,
                                      response |-> render_template(InitialState),
                                      next_actions |-> unique_events(InitialState)]
                 ELSE /\ store' = NoModel
                      /\ cresp'[c].kind = "raised"]_vars
\* a call with a key that is not registered has failed, a later call has
\* made the session, and an event has since been sent to it
C25_Witness ==
    /\ cop["c1"] = [op |-> "start", event |-> "", arg |-> "unregistered"]
    /\ cresp["c1"].kind = "raised"
    /\ cop["c2"].op = "event"
    /\ cresp["c2"].kind = "running"
    /\ store.state = "ai_extracts_name"

\* the invocations that are in the body of the with statement
Holders == {t \in Invocations : pool.inv[t].pc = "using"}

\* C26: of a pool of size n at most n invocations hold an invoker at the
\* same time, each of them an invoker of the pool, and no two of them the
\* same one.
C26_PoolExclusive ==
    /\ Cardinality(Holders) <= pool.size
    /\ \A t \in Holders : pool.inv[t].holds \in 1..pool.size
    /\ \A t, u \in Holders : t # u => pool.inv[t].holds # pool.inv[u].holds

\* C27: when process_event ends with TransitionNotAllowed, the route replies
\* with status 200 and the response carrying the error as its body, not
\* with an HTTPException.
C27_ErrorDelivered ==
    \A c \in Clients :
        (http[c].of # NoResp /\ http[c].of.kind = "rejected")
            => /\ http[c].status_code = HTTP_200_OK
               /\ http[c].detail = ""

\* C28: the final event of a DAG is applied at most once: when
\* trigger_ai_event or error_handler runs again for a DAG whose final task
\* has already sent its event, the run leaves the state and the dialogue of
\* the stored model as they are.
C28_AppliedOnce ==
    [][\A d \in redelivered :
          (dag[d].st \in {"tr_send", "eh_locked"} /\ dag'[d].st # dag[d].st)
              => /\ store'.state = store.state
                 /\ store'.dialogue = store.dialogue]_vars

\* C29: trigger_ai_event works in this order, holding the session lock all
\* the way: it checks that the progress record of the session exists and
\* deletes it, whatever the counters of the record say, also when done
\* exceeds todo; only then it sends the after-event with the result of the
\* DAG as its argument, and the step that releases the lock has stored the
\* model the send produced.  When there is no record it raises: the model is
\* stored as it was loaded and no transition is applied.
C29_TriggerOrder ==
    [][\A d \in DagIds :
          /\ (dag[d].st = "tr_locked" /\ dag'[d].st # "tr_locked")
                => /\ lock = "held" /\ lock' = "held"
                   /\ store' = store
                   /\ IF progress.exists
                      THEN dag'[d].st = "tr_send" /\ ~progress'.exists
                      ELSE dag'[d].st = "tr_raise" /\ progress' = progress
          /\ (dag[d].st = "tr_send" /\ dag'[d].st = "done")
                => /\ lock = "held" /\ lock' = "free"
                   /\ ~progress.exists
                   /\ store' = SendModel(store, dag[d].event, dag[d].result)
          /\ (dag[d].st = "tr_raise" /\ dag'[d].st # "tr_raise")
                => /\ lock = "held" /\ lock' = "free"
                   /\ dag'[d].st = "failed"
                   /\ store' = store]_vars

\* a trigger has sent its event and left the locked context
C29_Witness ==
    \E d \in DagIds :
        /\ dag[d].st = "done"
        /\ dag[d].by = "trigger"
        /\ lock = "free"
        /\ store.state # dag[d].state

\* the step in which the final task d of a DAG (trigger_ai_event or
\* error_handler) leaves its locked context
FinalTaskEnds(d) ==
    /\ dag[d].st \in {"tr_send", "tr_raise", "eh_locked"}
    /\ dag'[d].st # dag[d].st

\* C30: the callbacks of a progress-logging task update the progress record
\* while the session lock is held: on_success adds exactly one to the done
\* count of the record, on_failure sets the tombstone of the record and
\* leaves the record in place.  trigger_ai_event and error_handler are no
\* progress-logging tasks: their end makes no callback due and so never
\* changes a done count.
C30_ProgressLogging ==
    [][/\ (cbpc = "on_success" /\ cbpc' = "idle")
             => /\ lock = "held"
                /\ progress.exists
                      => progress' = [progress EXCEPT !.done = @ + 1]
       /\ (cbpc = "on_failure" /\ cbpc' = "idle")
             => /\ lock = "held"
                /\ progress.exists
                      => progress' = [progress EXCEPT !.tombstone = "t"]
       /\ \A d \in DagIds :
             FinalTaskEnds(d) => cbSucc' = cbSucc /\ cbFail' = cbFail]_vars

\* C31: the failure callback of a progress-logging task accounts the task as
\* done: it updates the progress record of the session as the success
\* callback does, adding exactly one to its done count.
C31_FailureCountsAsDone ==
    [][(cbpc = "on_failure" /\ cbpc' = "idle")
          => progress' = on_success(progress)]_vars

\* C32: among the tasks of a DAG only trigger_ai_event and error_handler
\* acquire the session lock: every step that takes the lock is a step of a
\* client operation, of a trigger or of an error handler, and never a step
\* of the success or failure callback of a task in the middle of a DAG.
C32_LockOnlyInFinalTasks ==
    [][(lock = "free" /\ lock' = "held")
          => /\ cbpc' = cbpc
             /\ \/ \E c \in Clients : cpc'[c] # cpc[c]
                \/ \E d \in DagIds : /\ dag'[d].st # dag[d].st
                                     /\ dag'[d].st \in {"tr_locked", "eh_locked"}]_vars

\* C33: a locked operation that has ended in failure has released the
\* session lock: when get_locked_model has raised because the model could
\* not be loaded, the lock is free.
C33_ReleasedOnFailure ==
    (ser.pc = "done" /\ ser.op = "get_locked_model" /\ ser.out.kind = "raised")
        => lock = "free"

C35_ActorInputCaptured ==
    /\ trans.pc = "before"
          => trans.actor_input = IF trans.args = <<>> THEN PyStr("")
                                 ELSE PyStr(trans.args[1])
    /\ (trans.pc = "done" /\ trans.args = <<>> /\ determine_type(trans.source) = "USER")
          => /\ trans.raised = ""
             /\ Len(trans.dialogue) = Len(trans.before) + 1
             /\ IsPrefix(trans.before, trans.dialogue)
             /\ trans.dialogue[Len(trans.dialogue)].actor_text = ""

\* the tasks of DAG d that have returned, out of the todo of its record
Succeeded(d) == progress.todo - 1 - dag[d].left

\* C36: a progress callback affects only the record of the DAG its task
\* belongs to: the done count of the record of a DAG never exceeds the
\* number of that DAG's tasks that have returned, and on_failure removes the
\* record of a DAG only when a task of that DAG has failed.
C36_CallbacksOwnDag ==
    [][/\ (cbpc = "on_success" /\ cbpc' = "idle" /\ progress.exists)
             => progress'.done <= Succeeded(progress.task_id)
       /\ (cbpc = "on_failure" /\ cbpc' = "idle" /\ progress.exists)
             => dag[progress.task_id].st \notin {"work", "trigger"}]_vars

\* C37: every completion of a subtask of a DAG finds the progress record of
\* the DAG: the step that dispatches a DAG is taken under the session lock
\* and leaves the record of that DAG inserted, and every on_success that
\* runs finds a record to count in.
C37_CompletionFindsRecord ==
    [][/\ nDags' # nDags
             => /\ lock = "held"
                /\ progress'.exists
                /\ progress'.task_id = nDags'
                /\ progress'.done = 0
       /\ (cbpc = "on_success" /\ cbpc' = "idle") => progress.exists]_vars

\* a step of caller c that belongs to a read: a poll event (acquire, answer
\* and exit) or get_task_state (check, acquire, release)
ReadStep(c) ==
    /\ <<cpc[c], cop[c], cresp[c], cmodel[c]>> # <<cpc'[c], cop'[c], cresp'[c], cmodel'[c]>>
    /\ \/ cop'[c].op = "task_state"
       \/ cop'[c].op = "event" /\ cop'[c].event = "poll"

\* C38: reads are read-only: every step of a poll event and of
\* get_task_state (whose locked read is SessionLockManager.get_model) leaves
\* the persisted state, dialogue and task_error and the progress record
\* exactly as they were, whatever the workers and callbacks of the session
\* are doing at that moment
C38_ReadsReadOnly ==
    [][\A c \in Clients :
         ReadStep(c) => /\ store'.state = store.state
                        /\ store'.dialogue = store.dialogue
                        /\ store'.task_error = store.task_error
                        /\ progress' = progress]_vars

\* a poll answered with the recorded error and a status read, both returned
\* while a callback of the session was under way
C38_Witness ==
    /\ cop["c1"].op = "event" /\ cop["c1"].event = "poll" /\ cpc["c1"] = "idle"
    /\ cresp["c1"].kind = "error"
    /\ cop["c2"].op = "task_state" /\ cpc["c2"] = "idle"
    /\ cresp["c2"].kind = "status" /\ cresp["c2"].ready
    /\ cbpc # "idle"
    /\ ~store.task_error.null

\* C39: task_error is never cleared: once it is set no step resets it or
\* drops a recorded error, and every poll answered while it is set and no
\* progress record exists returns the error shape with the recorded errors,
\* also after later DAGs of the session completed through trigger_ai_event
C39_ErrorSticky ==
    [][/\ ~store.task_error.null =>
             /\ ~store'.task_error.null
             /\ IsPrefix(store.task_error.recs, store'.task_error.recs)
       /\ \A c \in Clients :
             (/\ cpc[c] = "pe_locked" /\ cop[c].event = "poll" /\ cpc'[c] = "idle"
              /\ ~store.task_error.null /\ ~progress.exists)
             => /\ cresp'[c].kind = "error"
                /\ cresp'[c].error = store.task_error.recs]_vars

\* an error poll answered after a later DAG of the session was completed by
\* trigger_ai_event
C39_Witness ==
    /\ cop["c1"].op = "event" /\ cop["c1"].event = "poll" /\ cpc["c1"] = "idle"
    /\ cresp["c1"].kind = "error"
    /\ ~progress.exists
    /\ \E d1, d2 \in DagIds :
          /\ d1 < d2
          /\ dag[d1].st = "done" /\ dag[d1].by = "error_handler"
          /\ dag[d2].st = "done" /\ dag[d2].by = "trigger"

\* every invocation is outside the with statement
AllExited == \A t \in Invocations : pool.inv[t].pc = "idle"

\* C40: the pool conserves its invokers: once every invocation has left the
\* with statement, the queue holds each of the pool_size invokers it was
\* created with exactly once, nothing else, and the slot is empty.
C40_PoolConserved ==
    (pool.size > 0 /\ AllExited) =>
        /\ Len(pool.queue) = pool.size
        /\ \A i \in 1..pool.size : \E k \in 1..Len(pool.queue) : pool.queue[k] = i
        /\ pool.current = 0
====
